---- MODULE Spec2Model ----
(***************************************************************************)
(* Checkpoint construction and certification core of sui-core            *)
(* (crates/sui-core/src/checkpoints/mod.rs): the CheckpointStore, the     *)
(* CheckpointBuilder, the CheckpointAggregator and the CheckpointService. *)
(***************************************************************************)
EXTENDS Naturals, Integers, Sequences, FiniteSets, TLC

VARIABLES
    store,        \* the CheckpointStore tables (mod.rs 105-134)
    epoch_store,  \* the AuthorityPerEpochStore tables this core reads and writes
    panicked,     \* "no", or the panic! / assert_eq! that ended the process
    builder,      \* the CheckpointBuilder task: where it stands in run / make_checkpoint
    aggregator,   \* the CheckpointAggregator task: its `current` and where it stands
    service,      \* the CheckpointService: last_signature_index
    output,       \* what the CheckpointOutput / CertifiedCheckpointOutput sinks received
    network       \* the other validators and consensus: whether this validator's executed
                  \* effects differ from theirs, and the signatures consensus has delivered

tasks == <<builder, aggregator, service, output, network>>

vars == <<store, epoch_store, panicked, builder, aggregator, service, output, network>>

----------------------------------------------------------------------------
\* Option<T>, DBMap<K, V>

None == <<>>

Some(x) == <<x>>

IsSome(o) == o # None

Unwrap(o) == o[1]

EmptyMap == <<>>

\* DBMap::get
Get(m, k) == IF k \in DOMAIN m THEN Some(m[k]) ELSE None

\* DBMap::insert / insert_batch of one pair
Put(m, k, v) == [x \in (DOMAIN m) \cup {k} |-> IF x = k THEN v ELSE m[x]]

Max(S) == CHOOSE x \in S : \A y \in S : y <= x

\* unbounded_iter().skip_to_last().next() on a table keyed by sequence number
LastKey(m) == IF DOMAIN m = {} THEN None ELSE Some(Max(DOMAIN m))

----------------------------------------------------------------------------
\* Summaries, digests, certified checkpoints

\* A digest is a collision-free hash of the value it was computed over.
Digest(x) == [digest_of |-> x]

CheckpointWatermark == {"HighestVerified", "HighestSynced", "HighestExecuted", "HighestPruned"}

\* CheckpointSummary::new as called at mod.rs 1096-1105
NewCheckpointSummary(epoch, sequence_number, network_total_transactions, contents, previous_digest, epoch_rolling_gas_cost_summary, end_of_epoch_data, timestamp_ms) ==
    [ epoch |-> epoch,
      sequence_number |-> sequence_number,
      network_total_transactions |-> network_total_transactions,
      content_digest |-> Digest(contents),
      previous_digest |-> previous_digest,
      epoch_rolling_gas_cost_summary |-> epoch_rolling_gas_cost_summary,
      end_of_epoch_data |-> end_of_epoch_data,
      timestamp_ms |-> timestamp_ms ]

\* GasCostSummary::new
GasCostSummary(computation_cost, storage_cost, storage_rebate, non_refundable_storage_fee) ==
    [ computation_cost |-> computation_cost,
      storage_cost |-> storage_cost,
      storage_rebate |-> storage_rebate,
      non_refundable_storage_fee |-> non_refundable_storage_fee ]

\* CertifiedCheckpointSummary::new_from_data_and_sig, wrapped as a VerifiedCheckpoint
VerifiedCheckpoint(summary, auth_sig) == [data |-> summary, auth_sig |-> auth_sig]

----------------------------------------------------------------------------
\* CheckpointStore

EmptyStore ==
    [ checkpoint_content |-> EmptyMap,
      certified_checkpoints |-> EmptyMap,
      checkpoint_by_digest |-> EmptyMap,
      locally_computed_checkpoints |-> EmptyMap,
      epoch_last_checkpoint_map |-> EmptyMap,
      watermarks |-> [w \in CheckpointWatermark |-> None] ]

get_checkpoint_by_digest(s, digest) == Get(s.checkpoint_by_digest, digest)

get_checkpoint_by_sequence_number(s, sequence_number) ==
    Get(s.certified_checkpoints, sequence_number)

get_highest_verified_checkpoint(s) ==
    IF s.watermarks["HighestVerified"] = None
    THEN None
    ELSE get_checkpoint_by_digest(s, Unwrap(s.watermarks["HighestVerified"])[2])

get_highest_executed_checkpoint_seq_number(s) ==
    IF s.watermarks["HighestExecuted"] = None
    THEN None
    ELSE Some(Unwrap(s.watermarks["HighestExecuted"])[1])

get_epoch_last_checkpoint(s, epoch_id) ==
    IF epoch_id \in DOMAIN s.epoch_last_checkpoint_map
    THEN get_checkpoint_by_sequence_number(s, s.epoch_last_checkpoint_map[epoch_id])
    ELSE None

\* A check_for_checkpoint_fork that lets every pair of summaries pass
check_for_checkpoint_fork_blind(local_checkpoint, verified_checkpoint) == FALSE

\* TRUE when check_for_checkpoint_fork panics
check_for_checkpoint_fork(local_checkpoint, verified_checkpoint) ==
    local_checkpoint # verified_checkpoint.data

\* A write batch that keeps the entry checkpoint_by_digest already has for the digest
insert_certified_batch_keeping_digest(s, checkpoint) ==
    [s EXCEPT
        !.certified_checkpoints = Put(@, checkpoint.data.sequence_number, checkpoint),
        !.checkpoint_by_digest =
            IF Digest(checkpoint.data) \in DOMAIN @
            THEN @
            ELSE Put(@, Digest(checkpoint.data), checkpoint),
        !.epoch_last_checkpoint_map =
            IF IsSome(checkpoint.data.end_of_epoch_data)
            THEN Put(@, checkpoint.data.epoch, checkpoint.data.sequence_number)
            ELSE @]

\* The write batch of insert_certified_checkpoint (mod.rs 435-451)
insert_certified_batch(s, checkpoint) ==
    [s EXCEPT
        !.certified_checkpoints = Put(@, checkpoint.data.sequence_number, checkpoint),
        !.checkpoint_by_digest = Put(@, Digest(checkpoint.data), checkpoint),
        !.epoch_last_checkpoint_map =
            IF IsSome(checkpoint.data.end_of_epoch_data)
            THEN Put(@, checkpoint.data.epoch, checkpoint.data.sequence_number)
            ELSE @]

\* Every store operation returns the tables it leaves and whether it panicked.
Ok(s) == [store |-> s, panic |-> FALSE]

Panic(s) == [store |-> s, panic |-> TRUE]

\* insert_certified_checkpoint that moves the HighestVerified watermark to the
\* checkpoint it inserts
insert_certified_checkpoint_marking_verified(s, checkpoint) ==
    LET s1 == [insert_certified_batch(s, checkpoint) EXCEPT
                  !.watermarks["HighestVerified"] =
                      Some(<<checkpoint.data.sequence_number, Digest(checkpoint.data)>>)]
        local_checkpoint == Get(s1.locally_computed_checkpoints, checkpoint.data.sequence_number)
    IN  IF IsSome(local_checkpoint)
           /\ check_for_checkpoint_fork(Unwrap(local_checkpoint), checkpoint)
        THEN Panic(s1)
        ELSE Ok(s1)

insert_certified_checkpoint(s, checkpoint) ==
    LET s1 == insert_certified_batch(s, checkpoint)
        local_checkpoint == Get(s1.locally_computed_checkpoints, checkpoint.data.sequence_number)
    IN  IF IsSome(local_checkpoint)
           /\ check_for_checkpoint_fork(Unwrap(local_checkpoint), checkpoint)
        THEN Panic(s1)
        ELSE Ok(s1)

\* Rust's Some(a) > b.map(seq) on Option<u64>: None is below every Some
SomeGreater(sequence_number, highest) ==
    highest = None \/ sequence_number > Unwrap(highest).data.sequence_number

SetWatermark(s, watermark, checkpoint) ==
    [s EXCEPT !.watermarks[watermark] =
        Some(<<checkpoint.data.sequence_number, Digest(checkpoint.data)>>)]

update_highest_verified_checkpoint(s, checkpoint) ==
    IF SomeGreater(checkpoint.data.sequence_number, get_highest_verified_checkpoint(s))
    THEN SetWatermark(s, "HighestVerified", checkpoint)
    ELSE s

insert_verified_checkpoint(s, checkpoint) ==
    LET r == insert_certified_checkpoint(s, checkpoint)
    IN  IF r.panic THEN r ELSE Ok(update_highest_verified_checkpoint(r.store, checkpoint))

update_highest_synced_checkpoint(s, checkpoint) == SetWatermark(s, "HighestSynced", checkpoint)

\* update_highest_executed_checkpoint without its assert_eq!
update_highest_executed_checkpoint_no_assert(s, checkpoint) ==
    LET seq_number == get_highest_executed_checkpoint_seq_number(s)
    IN  IF IsSome(seq_number) /\ Unwrap(seq_number) >= checkpoint.data.sequence_number
        THEN Ok(s)
        ELSE Ok(SetWatermark(s, "HighestExecuted", checkpoint))

update_highest_executed_checkpoint(s, checkpoint) ==
    LET seq_number == get_highest_executed_checkpoint_seq_number(s)
    IN  IF IsSome(seq_number) /\ Unwrap(seq_number) >= checkpoint.data.sequence_number
        THEN Ok(s)
        ELSE IF IsSome(seq_number) /\ Unwrap(seq_number) + 1 # checkpoint.data.sequence_number
        THEN Panic(s)
        ELSE Ok(SetWatermark(s, "HighestExecuted", checkpoint))

update_highest_pruned_checkpoint(s, checkpoint) == SetWatermark(s, "HighestPruned", checkpoint)

set_highest_executed_checkpoint_subtle(s, checkpoint) ==
    SetWatermark(s, "HighestExecuted", checkpoint)

insert_checkpoint_contents(s, contents) ==
    [s EXCEPT !.checkpoint_content = Put(@, Digest(contents), contents)]

----------------------------------------------------------------------------
\* AuthorityPerEpochStore: the tables of one epoch

NewEpochStore(epoch) ==
    [ epoch |-> epoch,
      pending_checkpoints |-> EmptyMap,              \* commit height -> PendingCheckpoint
      builder_checkpoint_summary |-> EmptyMap,       \* sequence -> BuilderCheckpointSummary
      builder_digest_to_checkpoint |-> EmptyMap,     \* transaction digest -> sequence
      pending_checkpoint_signatures |-> EmptyMap ]   \* (sequence, index) -> signature message

\* CheckpointBuilder::new, and the start of run
NewBuilder == [pc |-> "main", height |-> 0, new_checkpoint |-> <<>>, errors |-> 0, failed |-> None]

\* CheckpointAggregator::new
NewAggregator == [pc |-> "outer", current |-> None, result |-> <<>>]

\* CheckpointService::spawn: last_signature_index of a fresh epoch store
NewService == [last_signature_index |-> 0]

NoOutput == [checkpoint_created |-> <<>>, certified_checkpoint_created |-> <<>>]

\* The committee of the epoch: Name is this validator
Authorities == {"A", "B"}

Name == "B"

\* What consensus has delivered so far of each authority's checkpoint signatures:
\* the sequence numbers whose signature of that authority it has delivered, in
\* whatever order; and how many pending checkpoints it has delivered a second time
NewNetwork(diverged, first_sequence) ==
    [ forked |-> diverged,
      signed |-> [a \in Authorities |-> 0..(first_sequence - 1)],
      redelivered |-> 0 ]

\* put_genesis_checkpoint_in_builder, called at mod.rs 179-181: the genesis summary
\* becomes the builder's last built summary, from no commit
put_genesis_checkpoint_in_builder(es, summary, contents) ==
    [es EXCEPT
        !.builder_checkpoint_summary =
            Put(@, summary.sequence_number,
                [summary |-> summary, commit_height |-> None, position_in_commit |-> 0]),
        !.builder_digest_to_checkpoint =
            [d \in (DOMAIN @) \cup {contents[i].transaction : i \in DOMAIN contents} |->
                IF d \in DOMAIN @ THEN @[d] ELSE summary.sequence_number]]

----------------------------------------------------------------------------
\* The store's operations as one caller after another drives them

MaxStoreSeq == 2

ZeroGas == GasCostSummary(0, 0, 0, 0)

EndOfEpoch(next_epoch) ==
    [ next_epoch_committee |-> "committee",
      next_epoch_protocol_version |-> 1,
      epoch_commitments |-> <<next_epoch>> ]

\* The contents of a checkpoint: (transaction digest, effects digest) pairs
ExecutionDigests(transaction, effects) == [transaction |-> transaction, effects |-> effects]

\* A chain of checkpoints a caller may hold: genesis, then one transaction each;
\* epoch 0 ends with checkpoint 1.
StoreContents(n, variant) == <<ExecutionDigests(n, variant)>>

RECURSIVE StoreChain(_)
StoreChain(n) ==
    IF n = 0
    THEN NewCheckpointSummary(0, 0, 1, StoreContents(0, "a"), None, ZeroGas, None, 0)
    ELSE NewCheckpointSummary(IF n <= 1 THEN 0 ELSE 1, n, n + 1, StoreContents(n, "a"),
                              Some(Digest(StoreChain(n - 1))), ZeroGas,
                              IF n = 1 THEN Some(EndOfEpoch(1)) ELSE None, 0)

\* A second summary at sequence 1, with other contents
StoreFork ==
    NewCheckpointSummary(0, 1, 2, StoreContents(1, "b"), Some(Digest(StoreChain(0))),
                         ZeroGas, Some(EndOfEpoch(1)), 0)

StoreCheckpoints == {VerifiedCheckpoint(StoreChain(n), "quorum") : n \in 0..MaxStoreSeq}

StoreForks == {VerifiedCheckpoint(StoreFork, "quorum")}

ContentsOf(checkpoint) ==
    IF checkpoint.data = StoreFork
    THEN StoreContents(1, "b")
    ELSE StoreContents(checkpoint.data.sequence_number, "a")

\* What a returning or panicking store operation leaves behind
Return(r, reason) ==
    /\ store' = r.store
    /\ panicked' = IF r.panic THEN reason ELSE "no"

InsertCertifiedCheckpoint(c) ==
    /\ panicked = "no"
    /\ Return(insert_certified_checkpoint(store, c), "fork: insert_certified_checkpoint")
    /\ UNCHANGED <<epoch_store, tasks>>

InsertVerifiedCheckpoint(c) ==
    /\ panicked = "no"
    /\ Return(insert_verified_checkpoint(store, c), "fork: insert_certified_checkpoint")
    /\ UNCHANGED <<epoch_store, tasks>>

UpdateHighestVerifiedCheckpoint(c) ==
    /\ panicked = "no"
    /\ Return(Ok(update_highest_verified_checkpoint(store, c)), "no")
    /\ UNCHANGED <<epoch_store, tasks>>

UpdateHighestSyncedCheckpoint(c) ==
    /\ panicked = "no"
    /\ Return(Ok(update_highest_synced_checkpoint(store, c)), "no")
    /\ UNCHANGED <<epoch_store, tasks>>

UpdateHighestExecutedCheckpoint(c) ==
    /\ panicked = "no"
    /\ Return(update_highest_executed_checkpoint(store, c), "assert: update_highest_executed_checkpoint")
    /\ UNCHANGED <<epoch_store, tasks>>

UpdateHighestPrunedCheckpoint(c) ==
    /\ panicked = "no"
    /\ Return(Ok(update_highest_pruned_checkpoint(store, c)), "no")
    /\ UNCHANGED <<epoch_store, tasks>>

SetHighestExecutedCheckpointSubtle(c) ==
    /\ panicked = "no"
    /\ Return(Ok(set_highest_executed_checkpoint_subtle(store, c)), "no")
    /\ UNCHANGED <<epoch_store, tasks>>

\* insert_genesis_checkpoint (mod.rs 155-193)
InsertGenesisCheckpoint(c, contents) ==
    /\ panicked = "no"
    /\ UNCHANGED tasks
    /\ IF c.data.epoch # 0 \/ c.data.sequence_number # 0
       THEN /\ panicked' = "assert: insert_genesis_checkpoint"
            /\ UNCHANGED <<store, epoch_store>>
       ELSE IF IsSome(get_checkpoint_by_digest(store, Digest(c.data)))
       THEN UNCHANGED <<store, epoch_store, panicked>>
       ELSE /\ epoch_store' =
                  IF epoch_store.epoch = c.data.epoch
                  THEN put_genesis_checkpoint_in_builder(epoch_store, c.data, contents)
                  ELSE epoch_store
            /\ LET r == insert_verified_checkpoint(
                            insert_checkpoint_contents(store, contents), c)
               IN  IF r.panic
                   THEN Return(r, "fork: insert_certified_checkpoint")
                   ELSE Return(Ok(update_highest_synced_checkpoint(r.store, c)), "no")

StoreInit ==
    /\ store = EmptyStore
    /\ epoch_store = NewEpochStore(0)
    /\ panicked = "no"
    /\ builder = NewBuilder
    /\ aggregator = NewAggregator
    /\ service = NewService
    /\ output = NoOutput
    /\ network = NewNetwork(FALSE, 0)

StoreNext ==
    \/ \E c \in StoreCheckpoints \cup StoreForks :
        \/ InsertCertifiedCheckpoint(c)
        \/ InsertVerifiedCheckpoint(c)
    \/ \E c \in StoreCheckpoints :
        \/ UpdateHighestVerifiedCheckpoint(c)
        \/ UpdateHighestSyncedCheckpoint(c)
        \/ UpdateHighestExecutedCheckpoint(c)
        \/ UpdateHighestPrunedCheckpoint(c)
        \/ SetHighestExecutedCheckpointSubtle(c)
        \/ InsertGenesisCheckpoint(c, ContentsOf(c))

SpecStore == StoreInit /\ [][StoreNext]_vars

----------------------------------------------------------------------------
\* Watermarks (claims C5 - C8), under SpecStore

Watermark(s, w) == s.watermarks[w]

\* The sequence number of a watermark that is set
WatermarkSeq(s, w) == Unwrap(s.watermarks[w])[1]

\* a <= b on watermarks; an unset watermark is not compared
WatermarkLeq(s, a, b) ==
    \/ Watermark(s, a) = None
    \/ Watermark(s, b) = None
    \/ WatermarkSeq(s, a) <= WatermarkSeq(s, b)

\* s2's watermark w is not below s1's
NotLowered(s1, s2, w) ==
    \/ s1.watermarks[w] = None
    \/ s2.watermarks[w] # None /\ WatermarkSeq(s1, w) <= WatermarkSeq(s2, w)

\* C5: HighestPruned <= HighestExecuted <= HighestSynced <= HighestVerified in every
\* state the store's watermark operations reach.
C5_WatermarkOrdering ==
    /\ WatermarkLeq(store, "HighestPruned", "HighestExecuted")
    /\ WatermarkLeq(store, "HighestExecuted", "HighestSynced")
    /\ WatermarkLeq(store, "HighestSynced", "HighestVerified")

\* C6 as stated: every change update_highest_executed_checkpoint makes to HighestExecuted
\* raises its sequence number by exactly 1 (an unset watermark counted as just below 0).
C6_EveryChangeIsPlusOne ==
    [][\A c \in StoreCheckpoints :
          (UpdateHighestExecutedCheckpoint(c)
             /\ Watermark(store', "HighestExecuted") # Watermark(store, "HighestExecuted"))
          => WatermarkSeq(store', "HighestExecuted") =
                IF Watermark(store, "HighestExecuted") = None
                THEN 0
                ELSE WatermarkSeq(store, "HighestExecuted") + 1]_vars

\* C6 amended: on a set HighestExecuted, update_highest_executed_checkpoint(c) leaves the
\* watermark and returns when c.sequence <= current, moves it to c when c.sequence =
\* current + 1, and fails its assertion, the watermark unchanged, when c.sequence >
\* current + 1; on an unset HighestExecuted it sets the watermark to c, whatever c.sequence.
C6_HighestExecutedSteps ==
    [][\A c \in StoreCheckpoints :
          UpdateHighestExecutedCheckpoint(c) =>
            LET cur == Watermark(store, "HighestExecuted")
                new == Watermark(store', "HighestExecuted")
                seq == c.data.sequence_number
                moved == new = Some(<<seq, Digest(c.data)>>) /\ panicked' = "no"
            IN  IF cur = None THEN moved
                ELSE IF seq <= Unwrap(cur)[1] THEN new = cur /\ panicked' = "no"
                ELSE IF seq = Unwrap(cur)[1] + 1 THEN moved
                ELSE new = cur /\ panicked' = "assert: update_highest_executed_checkpoint"]_vars

\* C6 witness: a call with a sequence above current + 1 failed the assertion, the
\* watermark still where it was.
C6_Witness ==
    /\ panicked = "assert: update_highest_executed_checkpoint"
    /\ Watermark(store, "HighestExecuted") # None
    /\ WatermarkSeq(store, "HighestExecuted") = 0

\* The update and insert operations claim C7 names
UpdateOrInsert(c) ==
    \/ InsertCertifiedCheckpoint(c)
    \/ InsertVerifiedCheckpoint(c)
    \/ UpdateHighestVerifiedCheckpoint(c)
    \/ UpdateHighestSyncedCheckpoint(c)
    \/ UpdateHighestExecutedCheckpoint(c)
    \/ UpdateHighestPrunedCheckpoint(c)
    \/ InsertGenesisCheckpoint(c, ContentsOf(c))

\* C7: no update or insert operation of the store lowers the sequence number of any of
\* the four watermarks.
C7_WatermarksMonotonic ==
    [][\A c \in StoreCheckpoints \cup StoreForks :
          UpdateOrInsert(c) => \A w \in CheckpointWatermark : NotLowered(store, store', w)]_vars

\* C8: a returning insert_verified_checkpoint(c) stores c as certified, and sets
\* HighestVerified to (c.sequence, c.digest) iff c.sequence is above the current
\* HighestVerified sequence or HighestVerified is unset; otherwise it leaves it.
C8_InsertVerifiedBumpsIffGreater ==
    [][\A c \in StoreCheckpoints \cup StoreForks :
          (InsertVerifiedCheckpoint(c) /\ panicked' = "no") =>
            LET cur == Watermark(store, "HighestVerified")
                new == Watermark(store', "HighestVerified")
                seq == c.data.sequence_number
            IN  /\ get_checkpoint_by_sequence_number(store', seq) = Some(c)
                /\ get_checkpoint_by_digest(store', Digest(c.data)) = Some(c)
                /\ IF cur = None \/ seq > Unwrap(cur)[1]
                   THEN new = Some(<<seq, Digest(c.data)>>)
                   ELSE new = cur]_vars

----------------------------------------------------------------------------
\* The transactions of the run, their executed effects, the consensus commits

MaxEpoch == 1

max_transactions_per_checkpoint == 2

max_checkpoint_size_bytes == 100

\* Digests of the user transactions; AdvanceEpochTx is the advance_epoch
\* transaction create_and_execute_advance_epoch_tx makes at the end of epoch 0.
Transactions == 1..6

AdvanceEpochTx == 9

Dependencies(t) ==
    CASE t = 2 -> <<1>>
      [] t = 3 -> <<1>>
      [] t = 4 -> <<3>>
      [] t = 5 -> <<4>>
      [] OTHER -> <<>>

ExecutedEpoch(t) == IF t = 5 THEN 1 ELSE 0

\* The transaction whose effects this validator computes differently when forked
ForkedTransaction == 3

\* TransactionEffects of transaction t as executed by a validator; `diverged`
\* tells whether the validator's execution differs from the network's.
TransactionEffects(t, diverged) ==
    [ transaction_digest |-> t,
      effects_digest |-> IF diverged /\ t = ForkedTransaction THEN "b" ELSE "a",
      dependencies |-> Dependencies(t),
      executed_epoch |-> ExecutedEpoch(t),
      gas_cost_summary |->
          IF t = AdvanceEpochTx
          THEN GasCostSummary(0, 7, 5, 1)
          ELSE GasCostSummary(t, t + 1, 1, 2),
      size |-> 10 ]

\* TransactionEffects::execution_digests
execution_digests(effects) ==
    ExecutionDigests(effects.transaction_digest, effects.effects_digest)

\* PendingCheckpoint: the roots of one consensus commit and its details
PendingCheckpoint(roots, timestamp_ms, last_of_epoch, commit_height) ==
    [ roots |-> roots,
      details |-> [ timestamp_ms |-> timestamp_ms,
                    last_of_epoch |-> last_of_epoch,
                    commit_height |-> commit_height ] ]

\* The commits consensus delivers in each epoch, in height order
PendingCheckpoints(epoch) ==
    IF epoch = 0
    THEN << PendingCheckpoint(<<2, 1>>, 10, FALSE, 1),
            PendingCheckpoint(<<4, 6>>, 20, TRUE, 2) >>
    ELSE << PendingCheckpoint(<<5>>, 30, FALSE, 1) >>

----------------------------------------------------------------------------
\* AuthorityPerEpochStore operations the checkpoint tasks call

write_pending_checkpoint(es, checkpoint) ==
    IF checkpoint.details.commit_height \in DOMAIN es.pending_checkpoints
    THEN es
    ELSE [es EXCEPT !.pending_checkpoints =
                Put(@, checkpoint.details.commit_height, checkpoint)]

last_built_checkpoint_summary(es) ==
    IF DOMAIN es.builder_checkpoint_summary = {}
    THEN None
    ELSE LET seq == Max(DOMAIN es.builder_checkpoint_summary)
         IN  Some(<<seq, es.builder_checkpoint_summary[seq].summary>>)

last_built_checkpoint_commit_height(es) ==
    IF DOMAIN es.builder_checkpoint_summary = {}
    THEN None
    ELSE es.builder_checkpoint_summary[Max(DOMAIN es.builder_checkpoint_summary)].commit_height

\* The heights of the pending checkpoints above `last`, which the builder walks upwards
get_pending_checkpoints(es, last) ==
    {h \in DOMAIN es.pending_checkpoints : last = None \/ h > Unwrap(last)}

get_built_checkpoint_summary(es, sequence) ==
    IF sequence \in DOMAIN es.builder_checkpoint_summary
    THEN Some(es.builder_checkpoint_summary[sequence].summary)
    ELSE None

builder_included_transactions_in_checkpoint(es, digest) ==
    digest \in DOMAIN es.builder_digest_to_checkpoint

\* An effects signature exists for what this validator executed in the current epoch
effects_signatures_exists(es, digest) == ExecutedEpoch(digest) = es.epoch

RECURSIVE process_pending_checkpoint(_, _, _, _)
process_pending_checkpoint(es, commit_height, content_info, position_in_commit) ==
    IF position_in_commit > Len(content_info)
    THEN es
    ELSE LET summary == content_info[position_in_commit][1]
             transactions == content_info[position_in_commit][2]
             sequence_number == summary.sequence_number
             digests == {transactions[i].transaction : i \in DOMAIN transactions}
             es1 == [es EXCEPT
                        !.builder_checkpoint_summary =
                            Put(@, sequence_number,
                                [ summary |-> summary,
                                  commit_height |-> Some(commit_height),
                                  position_in_commit |-> position_in_commit - 1 ]),
                        !.builder_digest_to_checkpoint =
                            [d \in (DOMAIN @) \cup digests |->
                                IF d \in digests THEN sequence_number ELSE @[d]]]
         IN  process_pending_checkpoint(es1, commit_height, content_info, position_in_commit + 1)

insert_checkpoint_signature(es, sequence, index, info) ==
    [es EXCEPT !.pending_checkpoint_signatures = Put(@, <<sequence, index>>, info)]

----------------------------------------------------------------------------
\* CheckpointBuilder: from the roots of a pending checkpoint to summaries

\* A set of digests collected into a Vec
RECURSIVE SetToSeq(_)
SetToSeq(S) ==
    IF S = {}
    THEN <<>>
    ELSE LET m == CHOOSE x \in S : \A y \in S : x <= y
         IN  <<m>> \o SetToSeq(S \ {m})

\* One pass of the loop of complete_checkpoint_effects over `roots` from index i:
\* acc holds results, seen and pending.
RECURSIVE complete_roots(_, _, _, _)
complete_roots(es, roots, i, acc) ==
    IF i > Len(roots)
    THEN acc
    ELSE LET effect == roots[i]
             digest == effect.transaction_digest
             seen1 == acc.seen \cup {digest}
             skip == \/ builder_included_transactions_in_checkpoint(es, digest)
                     \/ effect.executed_epoch < es.epoch
             dependencies ==
                 {effect.dependencies[k] : k \in DOMAIN effect.dependencies}
             fresh == {d \in dependencies : effects_signatures_exists(es, d) /\ d \notin seen1}
         IN  IF skip
             THEN complete_roots(es, roots, i + 1, [acc EXCEPT !.seen = seen1])
             ELSE complete_roots(es, roots, i + 1,
                      [ results |-> Append(acc.results, effect),
                        seen |-> seen1 \cup fresh,
                        pending |-> acc.pending \cup fresh ])

\* `pending.into_iter().collect()` (mod.rs 1223): the HashSet hands its digests out
\* in an order of its own, here the order in which they stand in `order`
IntoIter(pending, order) == SelectSeq(order, LAMBDA digest : digest \in pending)

\* The loop of complete_checkpoint_effects, the HashSet of each pass iterated in `order`
RECURSIVE complete_checkpoint_effects_from(_, _, _, _, _, _)
complete_checkpoint_effects_from(es, roots, results, seen, order, diverged) ==
    LET acc == complete_roots(es, roots, 1, [results |-> results, seen |-> seen, pending |-> {}])
    IN  IF acc.pending = {}
        THEN acc.results
        ELSE LET pending == IntoIter(acc.pending, order)
                 effects == [k \in DOMAIN pending |-> TransactionEffects(pending[k], diverged)]
             IN  complete_checkpoint_effects_from(es, effects, acc.results, acc.seen, order, diverged)

\* The loop with the HashSet iterated in ascending order of the digests
complete_checkpoint_effects_loop(es, roots, results, seen, diverged) ==
    complete_checkpoint_effects_from(es, roots, results, seen, SetToSeq(Transactions), diverged)

complete_checkpoint_effects(es, roots, diverged) ==
    complete_checkpoint_effects_loop(es, roots, <<>>, {}, diverged)

\* The layers of the causal order over the digests in `remaining`: the digests with no
\* dependency left among them, in ascending order, then the layers of the others
RECURSIVE causal_layers(_, _)
causal_layers(remaining, dependencies) ==
    IF remaining = {}
    THEN <<>>
    ELSE LET ready == {d \in remaining : dependencies[d] \cap remaining = {}}
         IN  SetToSeq(ready) \o causal_layers(remaining \ ready, dependencies)

\* CausalOrder::causal_sort: a graph over the digests of the effects, each
\* digest once, put out with every effect after the effects it depends on
causal_sort(unsorted) ==
    LET digests == {unsorted[k].transaction_digest : k \in DOMAIN unsorted}
        effect == [d \in digests |->
                      unsorted[CHOOSE k \in DOMAIN unsorted : unsorted[k].transaction_digest = d]]
        dependencies == [d \in digests |->
                            {effect[d].dependencies[k] : k \in DOMAIN effect[d].dependencies}]
        order == causal_layers(digests, dependencies)
    IN  [k \in DOMAIN order |-> effect[order[k]]]

\* split_checkpoint_chunks: st holds chunks, chunk and chunk_size; the two caps
\* are the Builder's max_transactions_per_checkpoint and max_checkpoint_size_bytes
chunk_rolls_over_on_count_only(chunk, chunk_size, size, max_transactions, max_size_bytes) ==
    Len(chunk) = max_transactions /\ chunk # <<>>

\* A roll-over that closes the chunk already when the next item fills it to the byte cap
chunk_rolls_over_on_reaching_size(chunk, chunk_size, size, max_transactions, max_size_bytes) ==
    /\ \/ Len(chunk) = max_transactions
       \/ chunk_size + size >= max_size_bytes
    /\ chunk # <<>>

chunk_rolls_over(chunk, chunk_size, size, max_transactions, max_size_bytes) ==
    /\ \/ Len(chunk) = max_transactions
       \/ chunk_size + size > max_size_bytes
    /\ chunk # <<>>

RECURSIVE split_checkpoint_chunks_from(_, _, _, _, _)
split_checkpoint_chunks_from(effects, i, st, max_transactions, max_size_bytes) ==
    IF i > Len(effects)
    THEN IF st.chunk # <<>> \/ st.chunks = <<>>
         THEN Append(st.chunks, st.chunk)
         ELSE st.chunks
    ELSE LET size == effects[i].size
             st1 == IF chunk_rolls_over(st.chunk, st.chunk_size, size, max_transactions, max_size_bytes)
                    THEN [chunks |-> Append(st.chunks, st.chunk), chunk |-> <<>>, chunk_size |-> 0]
                    ELSE st
         IN  split_checkpoint_chunks_from(effects, i + 1,
                 [st1 EXCEPT !.chunk = Append(@, effects[i]), !.chunk_size = @ + size],
                 max_transactions, max_size_bytes)

\* A split without the heartbeat chunk of an empty input
split_checkpoint_chunks_without_heartbeat(effects, max_transactions, max_size_bytes) ==
    IF effects = <<>>
    THEN <<>>
    ELSE split_checkpoint_chunks_from(effects, 1, [chunks |-> <<>>, chunk |-> <<>>, chunk_size |-> 0],
                                      max_transactions, max_size_bytes)

split_checkpoint_chunks_with(effects, max_transactions, max_size_bytes) ==
    split_checkpoint_chunks_from(effects, 1, [chunks |-> <<>>, chunk |-> <<>>, chunk_size |-> 0],
                                 max_transactions, max_size_bytes)

split_checkpoint_chunks(effects) ==
    split_checkpoint_chunks_with(effects, max_transactions_per_checkpoint, max_checkpoint_size_bytes)

RECURSIVE new_from_txn_effects(_)
new_from_txn_effects(effects) ==
    IF effects = <<>>
    THEN GasCostSummary(0, 0, 0, 0)
    ELSE LET g == effects[1].gas_cost_summary
             rest == new_from_txn_effects(Tail(effects))
         IN  GasCostSummary(g.computation_cost + rest.computation_cost,
                            g.storage_cost + rest.storage_cost,
                            g.storage_rebate + rest.storage_rebate,
                            g.non_refundable_storage_fee + rest.non_refundable_storage_fee)

\* get_epoch_total_gas_cost that sums on across the epoch boundary
get_epoch_total_gas_cost_across_epochs(es, last_checkpoint, cur_checkpoint_effects) ==
    LET previous_gas_costs ==
            IF IsSome(last_checkpoint)
            THEN Unwrap(last_checkpoint).epoch_rolling_gas_cost_summary
            ELSE GasCostSummary(0, 0, 0, 0)
        current_gas_costs == new_from_txn_effects(cur_checkpoint_effects)
    IN  GasCostSummary(
            previous_gas_costs.computation_cost + current_gas_costs.computation_cost,
            previous_gas_costs.storage_cost + current_gas_costs.storage_cost,
            previous_gas_costs.storage_rebate + current_gas_costs.storage_rebate,
            previous_gas_costs.non_refundable_storage_fee
                + current_gas_costs.non_refundable_storage_fee)

get_epoch_total_gas_cost(es, last_checkpoint, cur_checkpoint_effects) ==
    LET previous_epoch == IF IsSome(last_checkpoint) THEN Unwrap(last_checkpoint).epoch ELSE 0
        previous_gas_costs ==
            IF IsSome(last_checkpoint)
            THEN Unwrap(last_checkpoint).epoch_rolling_gas_cost_summary
            ELSE GasCostSummary(0, 0, 0, 0)
        current_gas_costs == new_from_txn_effects(cur_checkpoint_effects)
    IN  IF previous_epoch = es.epoch
        THEN GasCostSummary(
                 previous_gas_costs.computation_cost + current_gas_costs.computation_cost,
                 previous_gas_costs.storage_cost + current_gas_costs.storage_cost,
                 previous_gas_costs.storage_rebate + current_gas_costs.storage_rebate,
                 previous_gas_costs.non_refundable_storage_fee
                     + current_gas_costs.non_refundable_storage_fee)
        ELSE current_gas_costs

\* augment_epoch_last_checkpoint: the advance_epoch effects join the checkpoint's effects
augment_epoch_last_checkpoint(checkpoint_effects, diverged) ==
    Append(checkpoint_effects, TransactionEffects(AdvanceEpochTx, diverged))

\* network_total_transactions that does not add up over the checkpoints
network_total_transactions_of_this_checkpoint(last_checkpoint, num_txns) == num_txns

\* network_total_transactions of a new summary (mod.rs 1090-1093)
next_network_total_transactions(last_checkpoint, num_txns) ==
    IF IsSome(last_checkpoint)
    THEN Unwrap(last_checkpoint)[2].network_total_transactions + num_txns
    ELSE num_txns

\* The loop of create_checkpoints over the chunks, from chunk `index` (0-based)
last_checkpoint_of_epoch_on_every_chunk(details, index, chunks_count) ==
    details.last_of_epoch

\* mod.rs 1016: the final chunk of the last pending checkpoint of the epoch
is_last_checkpoint_of_epoch(details, index, chunks_count) ==
    details.last_of_epoch /\ index = chunks_count - 1

RECURSIVE create_checkpoints_from(_, _, _, _, _, _)
create_checkpoints_from(es, chunks, index, last_checkpoint, details, diverged) ==
    IF index >= Len(chunks)
    THEN <<>>
    ELSE LET epoch == es.epoch
             last_checkpoint_of_epoch == is_last_checkpoint_of_epoch(details, index, Len(chunks))
             sequence_number ==
                 IF IsSome(last_checkpoint)
                 THEN Unwrap(last_checkpoint)[2].sequence_number + 1
                 ELSE 0
             transactions == chunks[index + 1]
             epoch_rolling_gas_cost_summary ==
                 get_epoch_total_gas_cost(es,
                     IF IsSome(last_checkpoint) THEN Some(Unwrap(last_checkpoint)[2]) ELSE None,
                     transactions)
             effects ==
                 IF last_checkpoint_of_epoch
                 THEN augment_epoch_last_checkpoint(transactions, diverged)
                 ELSE transactions
             end_of_epoch_data ==
                 IF last_checkpoint_of_epoch THEN Some(EndOfEpoch(epoch + 1)) ELSE None
             contents == [k \in DOMAIN effects |-> execution_digests(effects[k])]
             num_txns == Len(contents)
             network_total_transactions ==
                 next_network_total_transactions(last_checkpoint, num_txns)
             previous_digest ==
                 IF IsSome(last_checkpoint)
                 THEN Some(Digest(Unwrap(last_checkpoint)[2]))
                 ELSE None
             summary ==
                 NewCheckpointSummary(epoch, sequence_number, network_total_transactions,
                                      contents, previous_digest,
                                      epoch_rolling_gas_cost_summary, end_of_epoch_data,
                                      details.timestamp_ms)
         IN  <<(<<summary, contents>>)>> \o
             create_checkpoints_from(es, chunks, index + 1,
                                     Some(<<sequence_number, summary>>), details, diverged)

\* create_checkpoints that does not continue from the last summary it built
create_checkpoints_not_from_last_built(s, es, all_effects, details, diverged) ==
    [panic |-> FALSE,
     checkpoints |->
         create_checkpoints_from(es, split_checkpoint_chunks(all_effects), 0,
                                 None, details, diverged)]

\* create_checkpoints that continues from the last summary written to
\* locally_computed_checkpoints, whether or not process_pending_checkpoint recorded it
create_checkpoints_from_last_written(s, es, all_effects, details, diverged) ==
    LET written == DOMAIN s.locally_computed_checkpoints
        last_checkpoint ==
            IF written = {}
            THEN None
            ELSE Some(<<Max(written), s.locally_computed_checkpoints[Max(written)]>>)
    IN  [panic |-> FALSE,
         checkpoints |->
             create_checkpoints_from(es, split_checkpoint_chunks(all_effects), 0,
                                     last_checkpoint, details, diverged)]

\* create_checkpoints that starts a chain of its own when it finds no last
\* checkpoint of the previous epoch
create_checkpoints_starting_over(s, es, all_effects, details, diverged) ==
    LET built == last_built_checkpoint_summary(es)
        last_verified ==
            IF es.epoch > 0 THEN get_epoch_last_checkpoint(s, es.epoch - 1) ELSE None
        last_checkpoint ==
            IF built = None /\ IsSome(last_verified)
            THEN Some(<<Unwrap(last_verified).data.sequence_number,
                        Unwrap(last_verified).data>>)
            ELSE built
    IN  [panic |-> FALSE,
         checkpoints |->
             create_checkpoints_from(es, split_checkpoint_chunks(all_effects), 0,
                                     last_checkpoint, details, diverged)]

\* create_checkpoints: the summaries and contents, or the panic of a builder that
\* starts an epoch past genesis without the last checkpoint of the previous epoch
create_checkpoints(s, es, all_effects, details, diverged) ==
    LET built == last_built_checkpoint_summary(es)
        last_verified ==
            IF es.epoch > 0 THEN get_epoch_last_checkpoint(s, es.epoch - 1) ELSE None
        last_checkpoint ==
            IF built = None /\ es.epoch > 0
            THEN IF IsSome(last_verified)
                 THEN Some(<<Unwrap(last_verified).data.sequence_number,
                             Unwrap(last_verified).data>>)
                 ELSE None
            ELSE built
    IN  IF built = None /\ es.epoch > 0 /\ last_verified = None
        THEN [panic |-> TRUE, checkpoints |-> <<>>]
        ELSE [panic |-> FALSE,
              checkpoints |->
                  create_checkpoints_from(es, split_checkpoint_chunks(all_effects), 0,
                                          last_checkpoint, details, diverged)]

\* make_checkpoint of a Builder whose HashSet iterates in `order`, without the
\* causal sort
make_new_checkpoint_iterating_unsorted(s, es, pending, order, diverged) ==
    LET roots == [k \in DOMAIN pending.roots |-> TransactionEffects(pending.roots[k], diverged)]
        unsorted == complete_checkpoint_effects_from(es, roots, <<>>, {}, order, diverged)
    IN  create_checkpoints(s, es, unsorted, pending.details, diverged)

\* make_checkpoint (mod.rs 779-801) of a Builder whose HashSet iterates in `order`
make_new_checkpoint_iterating(s, es, pending, order, diverged) ==
    LET roots == [k \in DOMAIN pending.roots |-> TransactionEffects(pending.roots[k], diverged)]
        unsorted == complete_checkpoint_effects_from(es, roots, <<>>, {}, order, diverged)
        sorted == causal_sort(unsorted)
    IN  create_checkpoints(s, es, sorted, pending.details, diverged)

\* make_checkpoint that hands the effects to create_checkpoints as
\* complete_checkpoint_effects returned them
make_new_checkpoint_unsorted(s, es, pending, diverged) ==
    LET roots == [k \in DOMAIN pending.roots |-> TransactionEffects(pending.roots[k], diverged)]
        unsorted == complete_checkpoint_effects(es, roots, diverged)
    IN  create_checkpoints(s, es, unsorted, pending.details, diverged)

\* make_checkpoint up to write_checkpoints: what the builder computes for one
\* pending checkpoint from the effects this validator executed
make_new_checkpoint(s, es, pending, diverged) ==
    LET roots == [k \in DOMAIN pending.roots |-> TransactionEffects(pending.roots[k], diverged)]
        unsorted == complete_checkpoint_effects(es, roots, diverged)
        sorted == causal_sort(unsorted)
    IN  create_checkpoints(s, es, sorted, pending.details, diverged)

----------------------------------------------------------------------------
\* The checkpoints the rest of the network builds and certifies: the same builder,
\* run over the same commits on the effects the network executed

RECURSIVE NetworkEpoch(_, _, _)
NetworkEpoch(s, es, i) ==
    IF i > Len(PendingCheckpoints(es.epoch))
    THEN <<>>
    ELSE LET pending == PendingCheckpoints(es.epoch)[i]
             new_checkpoint == make_new_checkpoint(s, es, pending, FALSE).checkpoints
             es1 == process_pending_checkpoint(es, pending.details.commit_height,
                                               new_checkpoint, 1)
         IN  new_checkpoint \o NetworkEpoch(s, es1, i + 1)

RECURSIVE InsertAll(_, _)
InsertAll(s, checkpoints) ==
    IF checkpoints = <<>>
    THEN s
    ELSE InsertAll(insert_certified_batch(s, VerifiedCheckpoint(checkpoints[1][1], {"A"})),
                   Tail(checkpoints))

RECURSIVE NetworkCheckpoints(_)
NetworkCheckpoints(epoch) ==
    LET before == IF epoch = 0 THEN <<>> ELSE NetworkCheckpoints(epoch - 1)
    IN  before \o NetworkEpoch(InsertAll(EmptyStore, before), NewEpochStore(epoch), 1)

\* Indexed by sequence number + 1
NetworkChain == NetworkCheckpoints(MaxEpoch)

MaxSequence == Len(NetworkChain) - 1

NetworkSummary(n) == NetworkChain[n + 1][1]

\* The first sequence number of an epoch
FirstSequence(epoch) ==
    Cardinality({n \in 0..MaxSequence : NetworkSummary(n).epoch < epoch})

----------------------------------------------------------------------------
\* CheckpointSignatureAggregator

Stake(a) == IF a = "A" THEN 3 ELSE 1

RECURSIVE TotalStake(_)
TotalStake(S) ==
    IF S = {} THEN 0 ELSE LET a == CHOOSE x \in S : TRUE IN Stake(a) + TotalStake(S \ {a})

\* Committee::quorum_threshold: more than two thirds of the total stake
QuorumThreshold == (2 * TotalStake(Authorities)) \div 3 + 1

\* CheckpointSignatureMessage: an authority's signature over its own summary
CheckpointSignatureMessage(summary, authority) ==
    [summary |-> [data |-> summary, auth_sig |-> [authority |-> authority]]]

\* A signature aggregator that reads only the records persisted after it was made
NewCheckpointSignatureAggregatorFromNow(summary) ==
    [ next_index |-> service.last_signature_index + 1,
      summary |-> summary,
      digest |-> Digest(summary),
      signatures_by_digest |-> EmptyMap ]

NewCheckpointSignatureAggregator(summary) ==
    [ next_index |-> 0,
      summary |-> summary,
      digest |-> Digest(summary),
      signatures_by_digest |-> EmptyMap ]

\* MultiStakeAggregator::insert: the authorities that signed each digest
MultiStakeAggregatorInsert(signatures_by_digest, k, authority) ==
    LET signed == IF k \in DOMAIN signatures_by_digest THEN signatures_by_digest[k] ELSE {}
    IN  IF authority \notin Authorities \/ authority \in signed
        THEN [result |-> "Failed", map |-> signatures_by_digest]
        ELSE IF TotalStake(signed \cup {authority}) >= QuorumThreshold
        THEN [result |-> "QuorumReached",
              map |-> Put(signatures_by_digest, k, signed \cup {authority}),
              cert |-> signed \cup {authority}]
        ELSE [result |-> "NotEnoughVotes",
              map |-> Put(signatures_by_digest, k, signed \cup {authority})]

\* try_aggregate that takes the first signature on its own digest for a certificate
try_aggregate_without_quorum(current, data) ==
    LET their_digest == Digest(data.summary.data)
        inserted == MultiStakeAggregatorInsert(current.signatures_by_digest, their_digest,
                                               data.summary.auth_sig.authority)
        current1 == [current EXCEPT !.signatures_by_digest = inserted.map]
    IN  IF inserted.result # "Failed" /\ their_digest = current.digest
        THEN [ok |-> TRUE, cert |-> {data.summary.auth_sig.authority}, current |-> current1]
        ELSE [ok |-> FALSE, current |-> current1]

\* try_aggregate accepting a quorum on whatever digest reached it
try_aggregate_any_digest(current, data) ==
    LET their_digest == Digest(data.summary.data)
        inserted == MultiStakeAggregatorInsert(current.signatures_by_digest, their_digest,
                                               data.summary.auth_sig.authority)
        current1 == [current EXCEPT !.signatures_by_digest = inserted.map]
    IN  IF inserted.result = "QuorumReached"
        THEN [ok |-> TRUE, cert |-> inserted.cert, current |-> current1]
        ELSE [ok |-> FALSE, current |-> current1]

try_aggregate(current, data) ==
    LET their_digest == Digest(data.summary.data)
        inserted == MultiStakeAggregatorInsert(current.signatures_by_digest, their_digest,
                                               data.summary.auth_sig.authority)
        current1 == [current EXCEPT !.signatures_by_digest = inserted.map]
    IN  IF inserted.result = "QuorumReached" /\ their_digest = current.digest
        THEN [ok |-> TRUE, cert |-> inserted.cert, current |-> current1]
        ELSE [ok |-> FALSE, current |-> current1]

next_checkpoint_to_certify_skipping(s) ==
    IF DOMAIN s.certified_checkpoints = {} THEN 1 ELSE Max(DOMAIN s.certified_checkpoints) + 2

next_checkpoint_to_certify_highest(s) ==
    IF DOMAIN s.certified_checkpoints = {} THEN 0 ELSE Max(DOMAIN s.certified_checkpoints)

next_checkpoint_to_certify(s) ==
    IF IsSome(LastKey(s.certified_checkpoints))
    THEN Unwrap(LastKey(s.certified_checkpoints)) + 1
    ELSE 0

\* Keys of pending_checkpoint_signatures: (sequence, index), in this order
KeyLeq(a, b) == a[1] < b[1] \/ (a[1] = b[1] /\ a[2] <= b[2])

\* get_pending_checkpoint_signatures_iter: the keys from (sequence, next_index) on
get_pending_checkpoint_signatures_iter(es, sequence, next_index) ==
    {k \in DOMAIN es.pending_checkpoint_signatures : KeyLeq(<<sequence, next_index>>, k)}

FirstKey(keys) == CHOOSE k \in keys : \A j \in keys : KeyLeq(k, j)

----------------------------------------------------------------------------
\* The tasks of the checkpoint core running together in one validator

MaxErrors == 1

MaxSignatures == 3

MaxRedelivered == 1

\* The consensus handler writes the next commit's pending checkpoint and
\* notifies the builder (write_pending_checkpoint, notify_checkpoint)
WritePendingCheckpoint ==
    /\ panicked = "no"
    /\ LET height == Cardinality(DOMAIN epoch_store.pending_checkpoints) + 1
       IN  /\ height <= Len(PendingCheckpoints(epoch_store.epoch))
           /\ epoch_store' = write_pending_checkpoint(epoch_store,
                                 PendingCheckpoints(epoch_store.epoch)[height])
    /\ UNCHANGED <<store, panicked, tasks>>

\* The consensus handler delivers a commit a second time: it writes the same
\* pending checkpoint (same commit height, same roots) and notifies the builder,
\* whose loop (mod.rs 745-765) then scans the heights above the last built one
RewritePendingCheckpoint(height) ==
    /\ panicked = "no"
    /\ height \in DOMAIN epoch_store.pending_checkpoints
    /\ network.redelivered < MaxRedelivered
    /\ epoch_store' = write_pending_checkpoint(epoch_store,
                          PendingCheckpoints(epoch_store.epoch)[height])
    /\ network' = [network EXCEPT !.redelivered = @ + 1]
    /\ UNCHANGED <<store, panicked, builder, aggregator, service, output>>

\* run that walks the pending checkpoints from the last built commit height on,
\* that height included
pending_checkpoints_from_last_built(es) ==
    LET last == last_built_checkpoint_commit_height(es)
    IN  {h \in DOMAIN es.pending_checkpoints : last = None \/ h >= Unwrap(last)}

\* run that walks every pending checkpoint of the epoch
pending_checkpoints_of_epoch(es) == DOMAIN es.pending_checkpoints

\* The commit heights run walks (mod.rs 745-753): the pending checkpoints above
\* the last built commit height, read again at every turn of 'main
pending_checkpoints_to_build(es) ==
    get_pending_checkpoints(es, last_built_checkpoint_commit_height(es))

\* CheckpointBuilder::run takes the next pending checkpoint above the last built
\* commit height; make_checkpoint computes its summaries
BuilderMakeCheckpoint ==
    /\ panicked = "no"
    /\ builder.pc = "main"
    /\ LET heights == pending_checkpoints_to_build(epoch_store)
       IN  /\ heights # {}
           /\ LET height == CHOOSE h \in heights : \A g \in heights : h <= g
                  made == make_new_checkpoint(store, epoch_store,
                              epoch_store.pending_checkpoints[height], network.forked)
              IN  IF made.panic
                  THEN /\ panicked' = "panic: create_checkpoints"
                       /\ UNCHANGED builder
                  ELSE /\ builder' = [builder EXCEPT !.pc = "write",
                                                     !.height = height,
                                                     !.new_checkpoint = made.checkpoints]
                       /\ UNCHANGED panicked
    /\ UNCHANGED <<store, epoch_store, aggregator, service, output, network>>

\* The write batch of write_checkpoints (mod.rs 829-839)
RECURSIVE write_checkpoints_batch(_, _)
write_checkpoints_batch(s, new_checkpoint) ==
    IF new_checkpoint = <<>>
    THEN s
    ELSE LET summary == new_checkpoint[1][1]
             contents == new_checkpoint[1][2]
         IN  write_checkpoints_batch(
                 [s EXCEPT !.checkpoint_content = Put(@, Digest(contents), contents),
                           !.locally_computed_checkpoints =
                               Put(@, summary.sequence_number, summary)],
                 Tail(new_checkpoint))

\* write_checkpoints without the fork checks that follow its write batch
write_checkpoints_fork_skipped(s, new_checkpoint) == FALSE

\* The fork checks of write_checkpoints (mod.rs 841-850): TRUE when one panics
write_checkpoints_fork(s, new_checkpoint) ==
    \E i \in DOMAIN new_checkpoint :
        LET local_checkpoint == new_checkpoint[i][1]
            certified_checkpoint == Get(s.certified_checkpoints, local_checkpoint.sequence_number)
        IN  /\ IsSome(certified_checkpoint)
            /\ check_for_checkpoint_fork(local_checkpoint, Unwrap(certified_checkpoint))

Summaries(new_checkpoint) == [i \in DOMAIN new_checkpoint |-> new_checkpoint[i][1]]

\* make_checkpoint returns an error to run (mod.rs 759-764): run counts it and
\* starts over. `failed` keeps what the attempt had built, for comparison with
\* what the retry builds.
Failed(b) ==
    [b EXCEPT !.pc = "main",
              !.new_checkpoint = <<>>,
              !.errors = @ + 1,
              !.failed = Some([height |-> b.height, new_checkpoint |-> b.new_checkpoint])]

\* write_checkpoints: `created` summaries reach the output; when the output fails
\* after them the error returns to run, which starts over from the last built height
BuilderWriteCheckpoints(created) ==
    /\ panicked = "no"
    /\ builder.pc = "write"
    /\ created <= Len(builder.new_checkpoint)
    /\ output' = [output EXCEPT !.checkpoint_created =
                      @ \o SubSeq(Summaries(builder.new_checkpoint), 1, created)]
    /\ IF created < Len(builder.new_checkpoint)
       THEN /\ builder.errors < MaxErrors
            /\ builder' = Failed(builder)
            /\ UNCHANGED <<store, epoch_store, panicked>>
       ELSE /\ store' = write_checkpoints_batch(store, builder.new_checkpoint)
            /\ IF write_checkpoints_fork(store', builder.new_checkpoint)
               THEN /\ panicked' = "fork: write_checkpoints"
                    /\ UNCHANGED <<epoch_store, builder>>
               ELSE /\ epoch_store' = process_pending_checkpoint(epoch_store, builder.height,
                                                                 builder.new_checkpoint, 1)
                    /\ builder' = [builder EXCEPT !.pc = "main", !.new_checkpoint = <<>>]
                    /\ UNCHANGED panicked
    /\ UNCHANGED <<aggregator, service, network>>

\* write_checkpoints fails at its last call: process_pending_checkpoint of the
\* epoch store (854-855) returns an error, so the summaries are emitted, stored
\* and checked for a fork, and the cursor stays
BuilderWriteCheckpointsFailsAfterWrite ==
    /\ panicked = "no"
    /\ builder.pc = "write"
    /\ builder.errors < MaxErrors
    /\ output' = [output EXCEPT !.checkpoint_created = @ \o Summaries(builder.new_checkpoint)]
    /\ store' = write_checkpoints_batch(store, builder.new_checkpoint)
    /\ ~write_checkpoints_fork(store', builder.new_checkpoint)
    /\ builder' = Failed(builder)
    /\ UNCHANGED <<epoch_store, panicked, aggregator, service, network>>

\* State sync stores the next checkpoint the network certified
StateSyncInsertVerifiedCheckpoint ==
    /\ panicked = "no"
    /\ LET highest == get_highest_verified_checkpoint(store)
           n == IF IsSome(highest) THEN Unwrap(highest).data.sequence_number + 1 ELSE 0
       IN  /\ n <= MaxSequence
           /\ Return(insert_verified_checkpoint(store,
                         VerifiedCheckpoint(NetworkSummary(n), {"A"})),
                     "fork: insert_certified_checkpoint")
    /\ UNCHANGED <<epoch_store, tasks>>

\* run_inner returns; run_and_notify hands the certified summaries to the output
AggregatorReturn ==
    /\ aggregator' = [aggregator EXCEPT !.pc = "outer", !.result = <<>>]
    /\ output' = [output EXCEPT !.certified_checkpoint_created = @ \o aggregator.result]
    /\ UNCHANGED <<store, panicked>>

\* A run_inner that, without a locally built summary, collects signatures for the
\* summary the network signs
AggregatorOuterOfNetwork ==
    /\ panicked = "no"
    /\ aggregator.pc = "outer"
    /\ LET next_to_certify == next_checkpoint_to_certify(store)
           built == get_built_checkpoint_summary(epoch_store, next_to_certify)
           summary == IF built = None /\ next_to_certify <= MaxSequence
                      THEN Some(NetworkSummary(next_to_certify))
                      ELSE built
       IN  IF IsSome(aggregator.current)
           THEN /\ aggregator' =
                       IF Unwrap(aggregator.current).summary.sequence_number < next_to_certify
                       THEN [aggregator EXCEPT !.current = None]
                       ELSE [aggregator EXCEPT !.pc = "iter"]
                /\ UNCHANGED <<store, panicked, output>>
           ELSE IF summary = None
           THEN AggregatorReturn
           ELSE /\ aggregator' =
                       [aggregator EXCEPT
                           !.pc = "iter",
                           !.current = Some(NewCheckpointSignatureAggregator(Unwrap(summary)))]
                /\ UNCHANGED <<store, panicked, output>>
    /\ UNCHANGED <<epoch_store, builder, service, network>>

\* The head of the 'outer loop of run_inner (mod.rs 1306-1337)
AggregatorOuter ==
    /\ panicked = "no"
    /\ aggregator.pc = "outer"
    /\ LET next_to_certify == next_checkpoint_to_certify(store)
           summary == get_built_checkpoint_summary(epoch_store, next_to_certify)
       IN  IF IsSome(aggregator.current)
           THEN /\ aggregator' =
                       IF Unwrap(aggregator.current).summary.sequence_number < next_to_certify
                       THEN [aggregator EXCEPT !.current = None]
                       ELSE [aggregator EXCEPT !.pc = "iter"]
                /\ UNCHANGED <<store, panicked, output>>
           ELSE IF summary = None
           THEN AggregatorReturn
           ELSE /\ aggregator' =
                       [aggregator EXCEPT
                           !.pc = "iter",
                           !.current = Some(NewCheckpointSignatureAggregator(Unwrap(summary)))]
                /\ UNCHANGED <<store, panicked, output>>
    /\ UNCHANGED <<epoch_store, builder, service, network>>

next_index_unmoved(index) == index

\* mod.rs 1388: where run_inner goes on reading after a signature that gave no
\* certificate
next_index_after(index) == index + 1

\* One turn of the loop of run_inner over the pending signatures (mod.rs 1343-1391)
AggregatorSignature ==
    /\ panicked = "no"
    /\ aggregator.pc = "iter"
    /\ LET current == Unwrap(aggregator.current)
           keys == get_pending_checkpoint_signatures_iter(
                       epoch_store, current.summary.sequence_number, current.next_index)
       IN  IF keys = {} \/ FirstKey(keys)[1] # current.summary.sequence_number
           THEN AggregatorReturn
           ELSE LET index == FirstKey(keys)[2]
                    data == epoch_store.pending_checkpoint_signatures[FirstKey(keys)]
                    aggregated == try_aggregate(current, data)
                    summary == VerifiedCheckpoint(current.summary, aggregated.cert)
                IN  IF aggregated.ok
                    THEN /\ Return(insert_certified_checkpoint(store, summary),
                                   "fork: insert_certified_checkpoint")
                         /\ aggregator' = [aggregator EXCEPT
                                              !.pc = "outer",
                                              !.current = None,
                                              !.result = Append(@, summary)]
                         /\ UNCHANGED output
                    ELSE /\ aggregator' = [aggregator EXCEPT !.current =
                                Some([aggregated.current EXCEPT
                                         !.next_index = next_index_after(index)])]
                         /\ UNCHANGED <<store, panicked, output>>
    /\ UNCHANGED <<epoch_store, builder, service, network>>

EpochLastSequence(epoch) ==
    IF epoch = MaxEpoch THEN MaxSequence ELSE FirstSequence(epoch + 1) - 1

\* Where in what the checkpoint output received the summaries for sequence number n stand
CreatedAt(n) ==
    {i \in DOMAIN output.checkpoint_created :
        output.checkpoint_created[i].sequence_number = n}

\* The summaries this validator's output submitted for sequence number n
Created(n) == {output.checkpoint_created[i] : i \in CreatedAt(n)}

\* Consensus delivers the next checkpoint signature of `authority`:
\* notify_checkpoint_signature. The other authorities sign the network's
\* summary; this validator signs the summary its output submitted.
notify_checkpoint_signature_unchecked(s, svc, es, info) ==
    [ service |-> [svc EXCEPT !.last_signature_index = @ + 1],
      epoch_store |-> insert_checkpoint_signature(es, info.summary.data.sequence_number,
                                                  svc.last_signature_index + 1, info),
      notify_aggregator |-> TRUE ]

\* notify_checkpoint_signature: what it leaves of the service and the epoch store,
\* and whether it called notify_aggregator.notify_one()
notify_checkpoint_signature(s, svc, es, info) ==
    LET sequence == info.summary.data.sequence_number
        last_certified == LastKey(s.certified_checkpoints)
    IN  IF IsSome(last_certified) /\ sequence <= Unwrap(last_certified)
        THEN [service |-> svc, epoch_store |-> es, notify_aggregator |-> FALSE]
        ELSE [ service |-> [svc EXCEPT !.last_signature_index = @ + 1],
               epoch_store |-> insert_checkpoint_signature(es, sequence,
                                                           svc.last_signature_index + 1, info),
               notify_aggregator |-> TRUE ]

\* The Aggregator also runs when its one-second wait runs out (mod.rs 1278-1281),
\* so the model lets it run whether notify_aggregator was called or not
NotifyCheckpointSignature(authority, sequence) ==
    /\ panicked = "no"
    /\ service.last_signature_index < MaxSignatures
    /\ sequence \notin network.signed[authority]
    /\ sequence <= EpochLastSequence(epoch_store.epoch)
    /\ authority = Name => Created(sequence) # {}
    /\ network' = [network EXCEPT !.signed[authority] = @ \cup {sequence}]
    /\ LET summary == IF authority = Name
                      THEN CHOOSE c \in Created(sequence) : TRUE
                      ELSE NetworkSummary(sequence)
           notified == notify_checkpoint_signature(store, service, epoch_store,
                           CheckpointSignatureMessage(summary, authority))
       IN  /\ service' = notified.service
           /\ epoch_store' = notified.epoch_store
    /\ UNCHANGED <<store, panicked, builder, aggregator, output>>

\* Reconfiguration: the last checkpoint of the epoch is certified, the tasks of the
\* epoch have stopped (the Aggregator at its select, after run_and_notify handed
\* over what run_inner certified) and CheckpointService::spawn starts them on the
\* next epoch's store
Reconfigure ==
    /\ panicked = "no"
    /\ epoch_store.epoch < MaxEpoch
    /\ IsSome(get_epoch_last_checkpoint(store, epoch_store.epoch))
    /\ builder.pc = "main"
    /\ aggregator.pc = "outer"
    /\ aggregator.result = <<>>
    /\ epoch_store' = NewEpochStore(epoch_store.epoch + 1)
    /\ builder' = [NewBuilder EXCEPT !.errors = builder.errors]
    /\ aggregator' = NewAggregator
    /\ service' = NewService
    /\ network' = [NewNetwork(network.forked, FirstSequence(epoch_store.epoch + 1))
                       EXCEPT !.redelivered = network.redelivered]
    /\ UNCHANGED <<store, panicked, output>>

\* The lowest sequence number whose signature of the authority is not delivered yet
NextSignature(authority) ==
    CHOOSE n \in 0..(MaxSequence + 1) :
        /\ n \notin network.signed[authority]
        /\ \A k \in 0..(n - 1) : k \in network.signed[authority]

Init ==
    /\ store = EmptyStore
    /\ epoch_store = NewEpochStore(0)
    /\ panicked = "no"
    /\ builder = NewBuilder
    /\ aggregator = NewAggregator
    /\ service = NewService
    /\ output = NoOutput
    /\ network \in {NewNetwork(diverged, 0) : diverged \in BOOLEAN}

Next ==
    \/ WritePendingCheckpoint
    \/ BuilderMakeCheckpoint
    \/ \E created \in 0..max_transactions_per_checkpoint : BuilderWriteCheckpoints(created)
    \/ BuilderWriteCheckpointsFailsAfterWrite
    \/ StateSyncInsertVerifiedCheckpoint
    \/ AggregatorOuter
    \/ AggregatorSignature
    \/ \E authority \in Authorities :
           NotifyCheckpointSignature(authority, NextSignature(authority))
    \/ Reconfigure

Spec == Init /\ [][Next]_vars

\* The validator executes as the network does
InitAgreed == Init /\ ~network.forked

\* The consensus handler delivers pending checkpoints a second time; the
\* checkpoint output accepts every summary
NextRedelivered ==
    \/ WritePendingCheckpoint
    \/ \E height \in 1..Len(PendingCheckpoints(0)) : RewritePendingCheckpoint(height)
    \/ BuilderMakeCheckpoint
    \/ BuilderWriteCheckpoints(Len(builder.new_checkpoint))
    \/ StateSyncInsertVerifiedCheckpoint
    \/ AggregatorOuter
    \/ AggregatorSignature
    \/ \E authority \in Authorities :
           NotifyCheckpointSignature(authority, NextSignature(authority))
    \/ Reconfigure

SpecRedelivered == InitAgreed /\ [][NextRedelivered]_vars

\* Consensus delivers the signatures of an authority in any order of their
\* sequence numbers; the checkpoint output accepts every summary
NextAnyOrder ==
    \/ WritePendingCheckpoint
    \/ BuilderMakeCheckpoint
    \/ BuilderWriteCheckpoints(Len(builder.new_checkpoint))
    \/ StateSyncInsertVerifiedCheckpoint
    \/ AggregatorOuter
    \/ AggregatorSignature
    \/ \E authority \in Authorities, sequence \in 0..MaxSequence :
           NotifyCheckpointSignature(authority, sequence)
    \/ Reconfigure

SpecAnyOrder == InitAgreed /\ [][NextAnyOrder]_vars

----------------------------------------------------------------------------
\* Forks between what this validator built and what was certified (claims C1, C4)

LocalCheckpoints == store.locally_computed_checkpoints

CertifiedCheckpoints == store.certified_checkpoints

\* The sequence numbers that hold a local summary and a differing certified one
SelfForks ==
    {n \in (DOMAIN LocalCheckpoints) \cap (DOMAIN CertifiedCheckpoints) :
        LocalCheckpoints[n] # CertifiedCheckpoints[n].data}

ForkPanics == {"fork: insert_certified_checkpoint", "fork: write_checkpoints"}

\* C1: no self-fork. While the process has not panicked, a local summary and a
\* certified summary stored at the same sequence number are equal; and the process
\* panics in check_for_checkpoint_fork, from insert_certified_checkpoint /
\* insert_verified_checkpoint or from write_checkpoints, only over two summaries
\* at one sequence number that differ.
C1_NoSelfFork ==
    /\ panicked = "no" => SelfForks = {}
    /\ panicked \in ForkPanics => SelfForks # {}

\* A certified checkpoint arrived for a sequence number whose local summary differs
C1_Witness ==
    /\ panicked = "fork: insert_certified_checkpoint"
    /\ \E n \in SelfForks : n \in DOMAIN epoch_store.builder_checkpoint_summary

\* C4 as stated: once a certified checkpoint for n is stored, no step persists a new
\* local summary at n nor hands a summary at n to the checkpoint output.
C4_NoLocalSummaryAfterCertified ==
    [][\A n \in DOMAIN CertifiedCheckpoints :
          /\ n \notin DOMAIN LocalCheckpoints => n \notin DOMAIN LocalCheckpoints'
          /\ CreatedAt(n)' = CreatedAt(n)]_vars

\* The sequence numbers at which a step persists a local summary although a
\* certified checkpoint was already stored there
PersistedAfterCertified ==
    {n \in DOMAIN CertifiedCheckpoints :
        n \notin DOMAIN LocalCheckpoints /\ n \in DOMAIN LocalCheckpoints'}

\* C4: the Builder builds, hands to the output and persists the local summary at n
\* also when a certified checkpoint for n is already stored. When the persisted
\* summary equals the certified one the summaries are recorded as built, unless
\* write_checkpoints returns an error and the height is left to the retry; when it
\* differs the process panics in write_checkpoints before they are recorded as built.
C4_LocalSummaryAfterCertified ==
    [][PersistedAfterCertified # {} =>
          IF \A n \in PersistedAfterCertified :
                 LocalCheckpoints'[n] = CertifiedCheckpoints[n].data
          THEN /\ panicked' = "no"
               /\ \A n \in PersistedAfterCertified :
                      /\ \/ n \in DOMAIN epoch_store'.builder_checkpoint_summary
                         \/ builder'.errors = builder.errors + 1
                      /\ LocalCheckpoints'[n] \in Created(n)'
          ELSE /\ panicked' = "fork: write_checkpoints"
               /\ epoch_store' = epoch_store]_vars

\* The Builder persisted a summary that differs from the stored certified one
C4_Witness ==
    /\ panicked = "fork: write_checkpoints"
    /\ SelfForks # {}
    /\ \E n \in SelfForks : n \notin DOMAIN epoch_store.builder_checkpoint_summary

----------------------------------------------------------------------------
\* The chain of certified checkpoints (claim C2)

\* C2: in every state of the store, certified checkpoints stored at consecutive
\* sequence numbers n and n + 1 carry these sequence numbers, the later one names the
\* digest of the earlier one as previous_digest and is of the same or a later epoch;
\* a certified checkpoint has no previous_digest iff its sequence number is 0.
C2_CertifiedChain ==
    /\ \A n \in DOMAIN CertifiedCheckpoints :
          /\ CertifiedCheckpoints[n].data.sequence_number = n
          /\ CertifiedCheckpoints[n].data.previous_digest = None <=> n = 0
    /\ \A n \in DOMAIN CertifiedCheckpoints :
          n + 1 \in DOMAIN CertifiedCheckpoints =>
              LET c == CertifiedCheckpoints[n].data
                  d == CertifiedCheckpoints[n + 1].data
              IN  /\ d.sequence_number = c.sequence_number + 1
                  /\ d.previous_digest = Some(Digest(c))
                  /\ d.epoch >= c.epoch

\* The Aggregator certified the checkpoint after the last one state sync stored
C2_Witness ==
    /\ IsSome(Watermark(store, "HighestVerified"))
    /\ WatermarkSeq(store, "HighestVerified") + 1 \in DOMAIN CertifiedCheckpoints
    /\ Len(aggregator.result) + Len(output.certified_checkpoint_created) > 0

----------------------------------------------------------------------------
\* The chain of the summaries the Builder built (claims C3, C9, C10)

\* C3 as stated: the first summary built has sequence number 0 and no
\* previous_digest, and every later one follows the summary built before it.
C3_BuiltChainFromZero ==
    \A n \in DOMAIN LocalCheckpoints :
        IF n = 0
        THEN LocalCheckpoints[n].previous_digest = None
        ELSE /\ n - 1 \in DOMAIN LocalCheckpoints
             /\ LocalCheckpoints[n].previous_digest = Some(Digest(LocalCheckpoints[n - 1]))

\* C3: the summaries built within one epoch form a gap-free chain across pending
\* checkpoints and across the chunks of one pending checkpoint: each summary after
\* the first of its epoch has the sequence number after that of the summary built
\* before it and names its digest. The first summary built in epoch 0 has sequence
\* number 0 and no previous_digest; the first summary built in a later epoch follows
\* the certified last checkpoint of the previous epoch, whether or not this
\* validator built that checkpoint.
C3_BuiltChain ==
    \A n \in DOMAIN LocalCheckpoints :
        LET c == LocalCheckpoints[n]
        IN  /\ c.sequence_number = n
            /\ IF n = 0
               THEN c.previous_digest = None /\ c.epoch = 0
               ELSE IF n - 1 \in DOMAIN LocalCheckpoints /\ LocalCheckpoints[n - 1].epoch = c.epoch
               THEN c.previous_digest = Some(Digest(LocalCheckpoints[n - 1]))
               ELSE /\ c.epoch > 0
                    /\ IsSome(get_epoch_last_checkpoint(store, c.epoch - 1))
                    /\ LET last == Unwrap(get_epoch_last_checkpoint(store, c.epoch - 1)).data
                       IN  /\ last.sequence_number = n - 1
                           /\ c.previous_digest = Some(Digest(last))

\* The Builder built the first summary of epoch 1 without having built the last
\* checkpoint of epoch 0
C3_Witness ==
    \E n \in DOMAIN LocalCheckpoints :
        /\ LocalCheckpoints[n].epoch = 1
        /\ n - 1 \notin DOMAIN LocalCheckpoints
        /\ n \in DOMAIN epoch_store.builder_checkpoint_summary

\* The summary the Builder built checkpoint n on: the one it built before, or the
\* certified last checkpoint of the previous epoch
Predecessor(n) ==
    IF n = 0
    THEN None
    ELSE IF n - 1 \in DOMAIN LocalCheckpoints
    THEN Some(LocalCheckpoints[n - 1])
    ELSE Some(CertifiedCheckpoints[n - 1].data)

\* The contents stored for a built summary
ContentsOfSummary(c) == store.checkpoint_content[c.content_digest]

\* C9: for every checkpoint n the Builder built, the last checkpoint of an epoch with
\* its advance_epoch transaction included, the contents stored under the summary's
\* content digest hold network_total_transactions[n] - network_total_transactions[n-1]
\* transactions (network_total_transactions[n] for the first checkpoint ever), and
\* the content digest is the digest of these contents.
C9_ContentBinding ==
    \A n \in DOMAIN LocalCheckpoints :
        LET c == LocalCheckpoints[n]
        IN  /\ c.content_digest \in DOMAIN store.checkpoint_content
            /\ c.content_digest = Digest(ContentsOfSummary(c))
            /\ Len(ContentsOfSummary(c)) =
                   c.network_total_transactions -
                       (IF IsSome(Predecessor(n))
                        THEN Unwrap(Predecessor(n)).network_total_transactions
                        ELSE 0)
            /\ IsSome(c.end_of_epoch_data) =>
                   ContentsOfSummary(c)[Len(ContentsOfSummary(c))].transaction = AdvanceEpochTx

\* The Builder built the last checkpoint of epoch 0 and the checkpoint before it
C9_Witness ==
    \E n \in DOMAIN LocalCheckpoints :
        /\ IsSome(LocalCheckpoints[n].end_of_epoch_data)
        /\ n - 1 \in DOMAIN LocalCheckpoints
        /\ Len(ContentsOfSummary(LocalCheckpoints[n])) = 2

\* The gas cost summaries of the transactions listed in `contents`, summed
GasOfContents(contents) ==
    new_from_txn_effects([k \in DOMAIN contents |->
                             TransactionEffects(contents[k].transaction, network.forked)])

GasPlus(a, b) ==
    GasCostSummary(a.computation_cost + b.computation_cost,
                   a.storage_cost + b.storage_cost,
                   a.storage_rebate + b.storage_rebate,
                   a.non_refundable_storage_fee + b.non_refundable_storage_fee)

\* The rolling gas cost a checkpoint has when it adds the gas of `contents` to its
\* predecessor's within an epoch and starts over at the first checkpoint of an epoch
RollingGas(n, contents) ==
    IF IsSome(Predecessor(n)) /\ Unwrap(Predecessor(n)).epoch = LocalCheckpoints[n].epoch
    THEN GasPlus(Unwrap(Predecessor(n)).epoch_rolling_gas_cost_summary, GasOfContents(contents))
    ELSE GasOfContents(contents)

\* C10 as stated: the rolling gas cost of every built checkpoint, the end-of-epoch
\* checkpoint too, counts the gas of all effects in its contents.
C10_RollingGasOfAllContents ==
    \A n \in DOMAIN LocalCheckpoints :
        LocalCheckpoints[n].epoch_rolling_gas_cost_summary =
            RollingGas(n, ContentsOfSummary(LocalCheckpoints[n]))

\* The contents of a built checkpoint without the advance_epoch transaction that
\* ends the last checkpoint of an epoch
WithoutAdvanceEpoch(c) ==
    IF IsSome(c.end_of_epoch_data)
    THEN SubSeq(ContentsOfSummary(c), 1, Len(ContentsOfSummary(c)) - 1)
    ELSE ContentsOfSummary(c)

\* C10: for every built checkpoint c with predecessor prev, in each of the four gas
\* components: c.rolling_gas = prev.rolling_gas + the gas of c's effects when prev
\* is of the same epoch, and the gas of c's effects when c is the first checkpoint
\* of its epoch; where c's effects are the effects in its contents except, in the
\* last checkpoint of an epoch, the advance_epoch effect, whose gas is not counted.
C10_RollingGas ==
    \A n \in DOMAIN LocalCheckpoints :
        LocalCheckpoints[n].epoch_rolling_gas_cost_summary =
            RollingGas(n, WithoutAdvanceEpoch(LocalCheckpoints[n]))

\* The Builder built the last checkpoint of epoch 0 and the first of epoch 1
C10_Witness ==
    /\ \E n \in DOMAIN LocalCheckpoints :
          /\ IsSome(LocalCheckpoints[n].end_of_epoch_data)
          /\ LocalCheckpoints[n].epoch_rolling_gas_cost_summary #
                 RollingGas(n, ContentsOfSummary(LocalCheckpoints[n]))
    /\ \E n \in DOMAIN LocalCheckpoints : LocalCheckpoints[n].epoch = 1

----------------------------------------------------------------------------
\* What a checkpoint holds (claim C11)

\* The contents of every checkpoint make_checkpoint has built: those handed to
\* write_checkpoints and those it stored
BuiltContents ==
    {builder.new_checkpoint[i][2] : i \in DOMAIN builder.new_checkpoint}
        \cup {ContentsOfSummary(LocalCheckpoints[n]) : n \in DOMAIN LocalCheckpoints}

DependenciesOf(t) == {Dependencies(t)[k] : k \in DOMAIN Dependencies(t)}

\* C11: causal order. In the contents of every checkpoint make_checkpoint built, a
\* dependency of a transaction that is in the same contents stands before the
\* transaction, and no transaction digest stands in the contents twice.
C11_CausalOrder ==
    \A contents \in BuiltContents :
        \A i, j \in DOMAIN contents :
            /\ contents[j].transaction \in DependenciesOf(contents[i].transaction) => j < i
            /\ i # j => contents[i].transaction # contents[j].transaction

\* The checkpoint built from the roots 2, 1, where 1 is a root and a dependency of
\* the root before it: it holds 1 once, before 2
C11_Witness ==
    /\ 0 \in DOMAIN LocalCheckpoints
    /\ epoch_store.epoch = 0
    /\ epoch_store.pending_checkpoints[1].roots = <<2, 1>>
    /\ [k \in DOMAIN ContentsOfSummary(LocalCheckpoints[0]) |->
           ContentsOfSummary(LocalCheckpoints[0])[k].transaction] = <<1, 2>>

----------------------------------------------------------------------------
\* split_checkpoint_chunks on its own (claim C12): the effects list grows one
\* item at a time, each item of any size, under any pair of caps, and the
\* Builder splits the list it has

MaxChunkInput == 4
MaxItemSize == 3
MaxCountCap == 2
MaxByteCap == 4

ChunkBuilder(max_transactions, max_size_bytes, effects) ==
    [ pc |-> "split",
      max_transactions_per_checkpoint |-> max_transactions,
      max_checkpoint_size_bytes |-> max_size_bytes,
      effects |-> effects,
      chunks |-> split_checkpoint_chunks_with(effects, max_transactions, max_size_bytes) ]

SplitCheckpointChunks(size) ==
    /\ Len(builder.effects) < MaxChunkInput
    /\ builder' = ChunkBuilder(builder.max_transactions_per_checkpoint,
                               builder.max_checkpoint_size_bytes,
                               Append(builder.effects,
                                      [transaction_digest |-> Len(builder.effects) + 1, size |-> size]))
    /\ UNCHANGED <<store, epoch_store, panicked, aggregator, service, output, network>>

ChunksInit ==
    /\ store = EmptyStore
    /\ epoch_store = NewEpochStore(0)
    /\ panicked = "no"
    /\ \E max_transactions \in 0..MaxCountCap, max_size_bytes \in 0..MaxByteCap :
           builder = ChunkBuilder(max_transactions, max_size_bytes, <<>>)
    /\ aggregator = NewAggregator
    /\ service = NewService
    /\ output = NoOutput
    /\ network = NewNetwork(FALSE, 0)

ChunksNext == \E size \in 1..MaxItemSize : SplitCheckpointChunks(size)

SpecChunks == ChunksInit /\ [][ChunksNext]_vars

RECURSIVE ChunkSize(_)
ChunkSize(chunk) ==
    IF chunk = <<>> THEN 0 ELSE chunk[1].size + ChunkSize(Tail(chunk))

ChunkWithinCaps(chunk) ==
    /\ Len(chunk) <= builder.max_transactions_per_checkpoint
    /\ \/ ChunkSize(chunk) <= builder.max_checkpoint_size_bytes
       \/ Len(chunk) = 1 /\ chunk[1].size > builder.max_checkpoint_size_bytes

\* C12 as stated: under every configuration of the two caps, every chunk returned
\* by split_checkpoint_chunks is within both caps, a single item above the byte cap
\* excepted. A count cap of zero refutes it: the first item is always let in.
C12_ChunkCapsForEveryConfiguration ==
    \A k \in DOMAIN builder.chunks : ChunkWithinCaps(builder.chunks[k])

\* C12: chunk caps. Under every configuration with max_transactions_per_checkpoint
\* of at least one, no chunk returned by split_checkpoint_chunks has more than
\* max_transactions_per_checkpoint items or a total size above
\* max_checkpoint_size_bytes, except a chunk of a single item that alone is above
\* the byte cap.
C12_ChunkCaps ==
    builder.max_transactions_per_checkpoint >= 1 => C12_ChunkCapsForEveryConfiguration

\* A split that rolled over on the count, rolled over on the bytes and let a single
\* oversized item through
C12_Witness ==
    /\ builder.max_transactions_per_checkpoint = 2
    /\ Len(builder.chunks) >= 3
    /\ \E k \in DOMAIN builder.chunks :
           /\ Len(builder.chunks[k]) = 2
           /\ ChunkSize(builder.chunks[k]) <= builder.max_checkpoint_size_bytes
    /\ \E k \in DOMAIN builder.chunks :
           /\ Len(builder.chunks[k]) = 1
           /\ builder.chunks[k][1].size > builder.max_checkpoint_size_bytes
    /\ \E k \in DOMAIN builder.chunks :
           /\ Len(builder.chunks[k]) = 1
           /\ k < Len(builder.chunks)
           /\ builder.chunks[k][1].size <= builder.max_checkpoint_size_bytes

----------------------------------------------------------------------------
\* A pending checkpoint delivered twice (claim C13)

\* The local summaries in the order of their sequence numbers
LocalSummaries ==
    LET sequences == SetToSeq(DOMAIN LocalCheckpoints)
    IN  [i \in DOMAIN sequences |-> LocalCheckpoints[sequences[i]]]

Redelivers == network'.redelivered # network.redelivered

\* No two built summaries come from the same place of the same commit height
BuiltOnce ==
    \A m, n \in DOMAIN epoch_store.builder_checkpoint_summary :
        LET built == epoch_store.builder_checkpoint_summary
        IN  /\ built[m].commit_height = built[n].commit_height
            /\ built[m].position_in_commit = built[n].position_in_commit
            => m = n

\* C13: idempotent pending. However often a pending checkpoint is written and
\* notified again, every commit height is built once, and the run has emitted
\* every local summary once, in the order of the sequence numbers, as a run
\* without the second delivery does; and the second delivery itself changes no
\* stored summary, no pending checkpoint and emits nothing.
C13_IdempotentPending ==
    /\ [](BuiltOnce /\ (builder.errors = 0 => output.checkpoint_created = LocalSummaries))
    /\ [][Redelivers => UNCHANGED <<store, epoch_store, output, builder>>]_vars

\* Both heights of epoch 0 are built, one of them was delivered twice, the builder
\* has nothing left to build, and the three summaries were emitted once each
C13_Witness ==
    /\ network.redelivered = 1
    /\ epoch_store.epoch = 0
    /\ builder.pc = "main"
    /\ builder.errors = 0
    /\ last_built_checkpoint_commit_height(epoch_store) = Some(2)
    /\ get_pending_checkpoints(epoch_store, Some(2)) = {}
    /\ Len(output.checkpoint_created) = 3

----------------------------------------------------------------------------
\* The order of the certified checkpoints the Aggregator hands out (claim C14)

\* The certified checkpoints run_inner has collected and run_and_notify has sent
Certified == output.certified_checkpoint_created \o aggregator.result

\* C14: the certified checkpoints reach the certified-checkpoint output in strictly
\* increasing order of their sequence numbers, in whatever order the signatures
\* of the peers arrived.
C14_CertifiedInOrder ==
    \A i, j \in DOMAIN Certified :
        i < j => Certified[i].data.sequence_number < Certified[j].data.sequence_number

\* The signature for sequence 1 arrived before the signature for sequence 0, and
\* the output received the certified checkpoint 0 and then 1
C14_Witness ==
    /\ Len(output.certified_checkpoint_created) >= 2
    /\ output.certified_checkpoint_created[1].data.sequence_number = 0
    /\ output.certified_checkpoint_created[2].data.sequence_number = 1
    /\ \E k0, k1 \in DOMAIN epoch_store.pending_checkpoint_signatures :
           /\ k0[1] = 0
           /\ k1[1] = 1
           /\ k1[2] < k0[2]
           /\ \A k \in DOMAIN epoch_store.pending_checkpoint_signatures : k[1] = 0 => k = k0

----------------------------------------------------------------------------
\* The order in which the Builder works (claim C15)

\* make_checkpoint starts on a pending checkpoint
StartsHeight == builder.pc = "main" /\ builder'.pc = "write"

HeightOf(last) == IF last = None THEN 0 ELSE Unwrap(last)

\* (commit height, position in commit) of the built summary at sequence n
PlaceBuilt(n) ==
    << HeightOf(epoch_store.builder_checkpoint_summary[n].commit_height),
       epoch_store.builder_checkpoint_summary[n].position_in_commit >>

\* The summaries built by the attempt in course follow the last built one, one by one
AttemptFollowsLastBuilt ==
    \A i \in DOMAIN builder.new_checkpoint :
        /\ \A n \in DOMAIN epoch_store.builder_checkpoint_summary :
               n < builder.new_checkpoint[i][1].sequence_number
        /\ i > 1 => builder.new_checkpoint[i][1].sequence_number
                        = builder.new_checkpoint[i - 1][1].sequence_number + 1

\* C15 as stated, read on the summaries the Builder hands to its output: their
\* sequence numbers strictly increase over the whole run, retries included. A
\* retry builds the same sequence numbers again and refutes it.
C15_SequenceNumbersIncreaseAcrossRetries ==
    \A i, j \in DOMAIN output.checkpoint_created :
        i < j => output.checkpoint_created[i].sequence_number
                     < output.checkpoint_created[j].sequence_number

\* C15: the Builder takes only commit heights above the last built one and never a
\* height below the one it took before; the summaries of one attempt have
\* consecutive sequence numbers above every built one, and the built summaries
\* are numbered in the order of (commit height, position in commit). A retry after
\* an error takes the same height and builds the same sequence numbers again.
C15_BuilderOrder ==
    /\ [][StartsHeight =>
            /\ builder'.height > HeightOf(last_built_checkpoint_commit_height(epoch_store))
            /\ builder'.height >= builder.height]_vars
    /\ [](/\ AttemptFollowsLastBuilt
          /\ \A m, n \in DOMAIN epoch_store.builder_checkpoint_summary :
                 m < n => \/ PlaceBuilt(m)[1] < PlaceBuilt(n)[1]
                          \/ /\ PlaceBuilt(m)[1] = PlaceBuilt(n)[1]
                             /\ PlaceBuilt(m)[2] < PlaceBuilt(n)[2])

\* After an error at height 2 both heights of epoch 0 were built: three built
\* summaries, and the output has seen sequence number 1 twice
C15_Witness ==
    /\ builder.errors = 1
    /\ epoch_store.epoch = 0
    /\ DOMAIN epoch_store.builder_checkpoint_summary = {0, 1, 2}
    /\ Cardinality(CreatedAt(1)) = 2

----------------------------------------------------------------------------
\* What is certified when the Aggregator certifies (claim C16)

\* The Aggregator writes a certified checkpoint: run_inner pushes it to its result
AggregatorWrites == Len(aggregator'.result) = Len(aggregator.result) + 1

WrittenSequence == aggregator'.result[Len(aggregator'.result)].data.sequence_number

AllBelowCertified(n) == \A k \in 0..(n - 1) : k \in DOMAIN CertifiedCheckpoints

\* run_inner starts a signature aggregator
AggregatorStarts == aggregator.current = None /\ aggregator'.current # None

\* C16 as stated: the Aggregator writes a certified checkpoint only at the sequence
\* directly after the highest certified one. State sync can certify the sequence
\* while run_inner walks the signatures, and run_inner then writes it again.
C16_CertifiesOnlyNextToCertify ==
    [][AggregatorWrites =>
          /\ AllBelowCertified(WrittenSequence)
          /\ WrittenSequence = next_checkpoint_to_certify(store)]_vars

\* C16: whenever the Aggregator writes a certified checkpoint at sequence n, the
\* certified checkpoints of all sequences below n are in the store and n is at
\* most the sequence after the highest certified one; it starts a signature
\* aggregator only for the sequence directly after the highest certified one, and
\* at the head of its loop it drops an aggregator whose sequence is certified.
C16_CertifiesAfterCertified ==
    /\ [][AggregatorWrites =>
            /\ AllBelowCertified(WrittenSequence)
            /\ WrittenSequence <= next_checkpoint_to_certify(store)]_vars
    /\ [][AggregatorStarts =>
            Unwrap(aggregator'.current).summary.sequence_number
                = next_checkpoint_to_certify(store)]_vars
    /\ [][/\ aggregator.pc = "outer"
          /\ aggregator.current # None
          /\ Unwrap(aggregator.current).summary.sequence_number < next_checkpoint_to_certify(store)
          /\ aggregator' # aggregator
          => aggregator'.current = None]_vars

\* The Aggregator has written the certified checkpoint 1 and not 0, which state
\* sync had certified before
C16_Witness ==
    /\ \E i \in DOMAIN Certified : Certified[i].data.sequence_number = 1
    /\ 0 \in DOMAIN CertifiedCheckpoints
    /\ \A i \in DOMAIN Certified : Certified[i].data.sequence_number # 0

----------------------------------------------------------------------------
\* notify_checkpoint_signature on every signature message (claim C17)

\* The signature messages consensus can deliver: every authority's signature of a
\* summary of the network, this validator's signature of a summary it emitted
SignatureMessages ==
    {CheckpointSignatureMessage(NetworkSummary(n), a) : n \in 0..MaxSequence, a \in Authorities}
        \cup {CheckpointSignatureMessage(output.checkpoint_created[i], Name) :
                 i \in DOMAIN output.checkpoint_created}

AlreadyCertified(info) ==
    /\ DOMAIN CertifiedCheckpoints # {}
    /\ info.summary.data.sequence_number <= Max(DOMAIN CertifiedCheckpoints)

\* C17: notify_checkpoint_signature(info) with info.sequence at most the highest
\* certified sequence changes nothing: no signature record, the index counter as
\* it was, no notify_aggregator. With a greater sequence, or nothing certified,
\* exactly one record (sequence, index) -> info is added under a key that was not
\* there, the counter goes up by one and the Aggregator is notified.
C17_NotifyCheckpointSignature ==
    \A info \in SignatureMessages :
        LET notified == notify_checkpoint_signature(store, service, epoch_store, info)
            signatures == epoch_store.pending_checkpoint_signatures
            key == <<info.summary.data.sequence_number, service.last_signature_index + 1>>
        IN  IF AlreadyCertified(info)
            THEN /\ notified.epoch_store = epoch_store
                 /\ notified.service = service
                 /\ ~notified.notify_aggregator
            ELSE /\ key \notin DOMAIN signatures
                 /\ DOMAIN notified.epoch_store.pending_checkpoint_signatures
                        = DOMAIN signatures \cup {key}
                 /\ notified.epoch_store.pending_checkpoint_signatures[key] = info
                 /\ \A k \in DOMAIN signatures :
                        notified.epoch_store.pending_checkpoint_signatures[k] = signatures[k]
                 /\ notified.epoch_store
                        = [epoch_store EXCEPT !.pending_checkpoint_signatures =
                               notified.epoch_store.pending_checkpoint_signatures]
                 /\ notified.service.last_signature_index = service.last_signature_index + 1
                 /\ notified.notify_aggregator

\* Consensus delivered the signatures of authority A for the sequences 0 and 1:
\* the one for 0 came after state sync had certified 0 and left no record, the one
\* for 1 was persisted under index 1
C17_Witness ==
    /\ network.signed["A"] = {0, 1}
    /\ DOMAIN epoch_store.pending_checkpoint_signatures = {<<1, 1>>}
    /\ service.last_signature_index = 1
    /\ epoch_store.epoch = 0

----------------------------------------------------------------------------
\* Epochs of the built checkpoints (claim C18)

BuiltSummaries == epoch_store.builder_checkpoint_summary

\* The built summary at sequence n comes from the final chunk of a pending
\* checkpoint with last_of_epoch
FromFinalChunkOfLastPending(n) ==
    /\ IsSome(BuiltSummaries[n].commit_height)
    /\ epoch_store.pending_checkpoints[Unwrap(BuiltSummaries[n].commit_height)].details.last_of_epoch
    /\ \A m \in DOMAIN BuiltSummaries :
           BuiltSummaries[m].commit_height = BuiltSummaries[n].commit_height
               => BuiltSummaries[m].position_in_commit <= BuiltSummaries[n].position_in_commit

\* The Builder has built the last pending checkpoint of its epoch
BuiltLastPending ==
    \E n \in DOMAIN BuiltSummaries :
        /\ IsSome(BuiltSummaries[n].commit_height)
        /\ epoch_store.pending_checkpoints[Unwrap(BuiltSummaries[n].commit_height)].details.last_of_epoch

\* C18: epoch structure of the built checkpoints. A summary carries
\* end_of_epoch_data if and only if it is built from the final chunk of a pending
\* checkpoint with last_of_epoch; the epoch does not decrease with the sequence
\* number; the summary with end_of_epoch_data has the greatest sequence number of
\* its epoch, so each epoch has at most one, and it has one once the last pending
\* checkpoint of the epoch is built.
C18_EpochStructure ==
    /\ \A n \in DOMAIN BuiltSummaries :
           IsSome(BuiltSummaries[n].summary.end_of_epoch_data) <=> FromFinalChunkOfLastPending(n)
    /\ \A i \in DOMAIN builder.new_checkpoint :
           IsSome(builder.new_checkpoint[i][1].end_of_epoch_data)
               <=> /\ epoch_store.pending_checkpoints[builder.height].details.last_of_epoch
                   /\ i = Len(builder.new_checkpoint)
    /\ \A m, n \in DOMAIN LocalCheckpoints :
           /\ m < n => LocalCheckpoints[m].epoch <= LocalCheckpoints[n].epoch
           /\ /\ LocalCheckpoints[m].epoch = LocalCheckpoints[n].epoch
              /\ IsSome(LocalCheckpoints[m].end_of_epoch_data)
              => n <= m
    /\ BuiltLastPending =>
           \E n \in DOMAIN LocalCheckpoints :
               /\ LocalCheckpoints[n].epoch = epoch_store.epoch
               /\ IsSome(LocalCheckpoints[n].end_of_epoch_data)

\* The last pending checkpoint of epoch 0 made two chunks: the summary of the
\* first carries no end_of_epoch_data, the summary of the second does, and a
\* summary of epoch 1 follows
C18_Witness ==
    /\ DOMAIN LocalCheckpoints = {0, 1, 2, 3}
    /\ LocalCheckpoints[1].end_of_epoch_data = None
    /\ IsSome(LocalCheckpoints[2].end_of_epoch_data)
    /\ LocalCheckpoints[2].epoch = 0
    /\ LocalCheckpoints[3].epoch = 1

----------------------------------------------------------------------------
\* A quorum on a digest that is not the local one (claim C19)

\* The signature record run_inner reads next
NextSignatureKey ==
    FirstKey(get_pending_checkpoint_signatures_iter(
                 epoch_store, Unwrap(aggregator.current).summary.sequence_number,
                 Unwrap(aggregator.current).next_index))

\* run_inner is about to read a signature that completes a quorum on a digest
\* other than the digest of the local summary
RemoteForkAhead ==
    /\ panicked = "no"
    /\ aggregator.pc = "iter"
    /\ LET current == Unwrap(aggregator.current)
           keys == get_pending_checkpoint_signatures_iter(
                       epoch_store, current.summary.sequence_number, current.next_index)
       IN  /\ keys # {}
           /\ NextSignatureKey[1] = current.summary.sequence_number
           /\ LET data == epoch_store.pending_checkpoint_signatures[NextSignatureKey]
                  inserted == MultiStakeAggregatorInsert(current.signatures_by_digest,
                                  Digest(data.summary.data), data.summary.auth_sig.authority)
              IN  /\ inserted.result = "QuorumReached"
                  /\ Digest(data.summary.data) # current.digest

\* The Aggregator task takes the step
AggregatorSteps == aggregator' # aggregator

\* The signatures read for the current sequence hold a quorum on a digest other
\* than the local summary's
RemoteQuorum ==
    /\ aggregator.current # None
    /\ \E d \in DOMAIN Unwrap(aggregator.current).signatures_by_digest :
           /\ d # Unwrap(aggregator.current).digest
           /\ TotalStake(Unwrap(aggregator.current).signatures_by_digest[d]) >= QuorumThreshold

\* C19 as stated: on a remote fork the Aggregator writes no certified checkpoint,
\* returns from the run and leaves its next_index cursor where it was. run_inner
\* moves next_index past the signature and stays in its loop.
C19_RemoteForkReturns ==
    [][RemoteForkAhead /\ AggregatorSteps =>
          /\ UNCHANGED <<store, output>>
          /\ aggregator'.result = aggregator.result
          /\ aggregator'.pc = "outer"
          /\ Unwrap(aggregator'.current).next_index = Unwrap(aggregator.current).next_index]_vars

\* C19: remote fork. When a signature completes a quorum on a digest other than
\* the local summary's, the Aggregator writes no certified checkpoint for the
\* sequence, then or later, and stays on the sequence with the same local summary;
\* it moves its next_index cursor past that signature and goes on with the loop
\* over the signature records.
C19_RemoteFork ==
    /\ [][RemoteQuorum => ~AggregatorWrites]_vars
    /\ [][RemoteForkAhead /\ AggregatorSteps =>
             /\ UNCHANGED <<store, output>>
             /\ aggregator'.result = aggregator.result
             /\ aggregator'.current # None
             /\ Unwrap(aggregator'.current).summary = Unwrap(aggregator.current).summary
             /\ Unwrap(aggregator'.current).next_index = NextSignatureKey[2] + 1
             /\ aggregator'.pc = "iter"
             /\ RemoteQuorum']_vars

\* After the quorum on the network's digest for sequence 1 the Aggregator has read
\* this validator's signature of its own summary too: two digests hold signatures,
\* the cursor is past both records and sequence 1 is not certified
C19_Witness ==
    /\ network.forked
    /\ aggregator.current # None
    /\ Unwrap(aggregator.current).summary.sequence_number = 1
    /\ Cardinality(DOMAIN Unwrap(aggregator.current).signatures_by_digest) = 2
    /\ \E k \in DOMAIN epoch_store.pending_checkpoint_signatures :
           /\ k[1] = 1
           /\ epoch_store.pending_checkpoint_signatures[k].summary.auth_sig.authority = "A"
           /\ \E j \in DOMAIN epoch_store.pending_checkpoint_signatures :
                  /\ j[1] = 1
                  /\ j[2] > k[2]
                  /\ Unwrap(aggregator.current).next_index = j[2] + 1
    /\ 1 \notin DOMAIN CertifiedCheckpoints
    /\ panicked = "no"

----------------------------------------------------------------------------
\* A failed make_checkpoint and its retry (claim C20)

\* make_checkpoint returns an error to run
MakeCheckpointFails == builder'.errors = builder.errors + 1

LastBuiltHeight == HeightOf(last_built_checkpoint_commit_height(epoch_store))

\* The height of the failed attempt is not built yet
RetryDue == IsSome(builder.failed) /\ LastBuiltHeight < Unwrap(builder.failed).height

\* Every summary the failed attempt had built is stored, with its contents, and
\* recorded as built
FailedAttemptStored ==
    \A i \in DOMAIN Unwrap(builder.failed).new_checkpoint :
        LET summary == Unwrap(builder.failed).new_checkpoint[i][1]
            contents == Unwrap(builder.failed).new_checkpoint[i][2]
            n == summary.sequence_number
        IN  /\ n \in DOMAIN LocalCheckpoints
            /\ LocalCheckpoints[n] = summary
            /\ ContentsOfSummary(LocalCheckpoints[n]) = contents
            /\ get_built_checkpoint_summary(epoch_store, n) = Some(summary)

\* C20: retry safety. When make_checkpoint fails at a commit height, before or
\* after its summaries were emitted or written, the last-built cursor stays; the
\* next attempt of the Builder takes this height again and builds the same
\* summaries and contents; and once the height is built the store holds the
\* summaries and contents of the failed attempt under the same sequence numbers.
C20_RetrySafety ==
    /\ [][MakeCheckpointFails =>
            /\ epoch_store' = epoch_store
            /\ builder'.pc = "main"
            /\ RetryDue']_vars
    /\ [][StartsHeight /\ RetryDue =>
            /\ builder'.height = Unwrap(builder.failed).height
            /\ builder'.new_checkpoint = Unwrap(builder.failed).new_checkpoint]_vars
    /\ [](IsSome(builder.failed) /\ ~RetryDue => FailedAttemptStored)

\* The attempt at height 2 of epoch 0 failed after its two summaries were emitted
\* and written; the retry has built the height, and the output has seen the
\* summaries of sequence 1 and 2 twice
C20_Witness ==
    /\ epoch_store.epoch = 0
    /\ IsSome(builder.failed)
    /\ Unwrap(builder.failed).height = 2
    /\ Len(Unwrap(builder.failed).new_checkpoint) = 2
    /\ LastBuiltHeight = 2
    /\ builder.pc = "main"
    /\ Cardinality(CreatedAt(1)) = 2
    /\ Cardinality(CreatedAt(2)) = 2
    /\ Cardinality(Created(2)) = 1

----------------------------------------------------------------------------
\* The run loops of the two tasks, with their waits and the exit watch
\* (claims C21, C22). Here consensus delivers the pending checkpoints of epoch 0
\* and no checkpoint signature, so run_inner finds no record to read; an attempt
\* of make_checkpoint that fails does so before anything reaches the output.

\* CheckpointBuilder::new with the receiver of the exit watch not yet signalled,
\* no permit in notify, and no iterator over pending checkpoints
RunBuilder == [pc |-> "main", height |-> 0, new_checkpoint |-> <<>>, errors |-> 0, failed |-> None, exit |-> FALSE, notify |-> FALSE, pending |-> <<>>]

RunAggregator == [pc |-> "outer", current |-> None, result |-> <<>>, exit |-> FALSE]

RunInit ==
    /\ store = EmptyStore
    /\ epoch_store = NewEpochStore(0)
    /\ panicked = "no"
    /\ builder = RunBuilder
    /\ aggregator = RunAggregator
    /\ service = NewService
    /\ output = NoOutput
    /\ network = NewNetwork(FALSE, 0)

\* A notify_checkpoint that wakes only a Builder that already waits, and leaves
\* no permit otherwise
WriteAndNotifyWaitingBuilder ==
    /\ LET height == Cardinality(DOMAIN epoch_store.pending_checkpoints) + 1
       IN  /\ height <= Len(PendingCheckpoints(epoch_store.epoch))
           /\ epoch_store' = write_pending_checkpoint(epoch_store,
                                 PendingCheckpoints(epoch_store.epoch)[height])
    /\ builder' = [builder EXCEPT !.notify = builder.pc = "for" /\ builder.pending = <<>>]
    /\ UNCHANGED <<store, panicked, aggregator, service, output, network>>

\* The consensus handler writes the next pending checkpoint and calls
\* notify_checkpoint: notify_builder.notify_one() wakes the Builder or leaves a permit
WriteAndNotifyCheckpoint ==
    /\ LET height == Cardinality(DOMAIN epoch_store.pending_checkpoints) + 1
       IN  /\ height <= Len(PendingCheckpoints(epoch_store.epoch))
           /\ epoch_store' = write_pending_checkpoint(epoch_store,
                                 PendingCheckpoints(epoch_store.epoch)[height])
    /\ builder' = [builder EXCEPT !.notify = TRUE]
    /\ UNCHANGED <<store, panicked, aggregator, service, output, network>>

\* The holder of the exit sender signals it (or drops it): both receivers change
SignalExit ==
    /\ ~builder.exit
    /\ builder' = [builder EXCEPT !.exit = TRUE]
    /\ aggregator' = [aggregator EXCEPT !.exit = TRUE]
    /\ UNCHANGED <<store, epoch_store, panicked, service, output, network>>

\* run that starts a turn of 'main without looking at the exit watch
BuilderRunMainUnchecked ==
    /\ builder.pc = "main"
    /\ builder' = [builder EXCEPT
                      !.pc = "for",
                      !.pending = SetToSeq(pending_checkpoints_to_build(epoch_store))]
    /\ UNCHANGED <<store, epoch_store, panicked, aggregator, service, output, network>>

\* The head of 'main in CheckpointBuilder::run (mod.rs 736-753): the exit watch is
\* looked at, then the pending checkpoints above the last built height are read
BuilderRunMain ==
    /\ builder.pc = "main"
    /\ builder' = IF builder.exit
                  THEN [builder EXCEPT !.pc = "exited"]
                  ELSE [builder EXCEPT
                           !.pc = "for",
                           !.pending = SetToSeq(pending_checkpoints_to_build(epoch_store))]
    /\ UNCHANGED <<store, epoch_store, panicked, aggregator, service, output, network>>

\* One turn of the for loop (mod.rs 749-765): make_checkpoint of the next height
\* completes (ok) or returns an error, after which run sleeps one second
BuilderRunFor(ok) ==
    /\ panicked = "no"
    /\ builder.pc = "for"
    /\ builder.pending # <<>>
    /\ LET height == Head(builder.pending)
           made == make_new_checkpoint(store, epoch_store,
                       epoch_store.pending_checkpoints[height], network.forked)
       IN  IF ~ok
           THEN /\ builder' = [builder EXCEPT !.pc = "sleep"]
                /\ UNCHANGED <<store, epoch_store, panicked, output>>
           ELSE IF made.panic
           THEN /\ panicked' = "panic: create_checkpoints"
                /\ UNCHANGED <<store, epoch_store, builder, output>>
           ELSE /\ output' = [output EXCEPT !.checkpoint_created =
                                 @ \o Summaries(made.checkpoints)]
                /\ store' = write_checkpoints_batch(store, made.checkpoints)
                /\ IF write_checkpoints_fork(store', made.checkpoints)
                   THEN /\ panicked' = "fork: write_checkpoints"
                        /\ UNCHANGED <<epoch_store, builder>>
                   ELSE /\ epoch_store' = process_pending_checkpoint(epoch_store, height,
                                                                     made.checkpoints, 1)
                        /\ builder' = [builder EXCEPT !.height = height,
                                                      !.pending = Tail(@)]
                        /\ UNCHANGED panicked
    /\ UNCHANGED <<aggregator, service, network>>

\* The waits of run: the sleep after an error ends (mod.rs 761-763), and the
\* select at the end of the for loop (767-773) returns for the exit watch or,
\* when that has not changed, for a notification
BuilderRunWait ==
    /\ \/ /\ builder.pc = "sleep"
          /\ builder' = [builder EXCEPT !.pc = "main"]
       \/ /\ builder.pc = "for"
          /\ builder.pending = <<>>
          /\ builder.exit \/ builder.notify
          /\ builder' = IF builder.exit
                        THEN [builder EXCEPT !.pc = "exited"]
                        ELSE [builder EXCEPT !.pc = "main", !.notify = FALSE]
    /\ UNCHANGED <<store, epoch_store, panicked, aggregator, service, output, network>>

BuilderRun == BuilderRunMain \/ (\E ok \in BOOLEAN : BuilderRunFor(ok)) \/ BuilderRunWait

\* CheckpointAggregator::run (mod.rs 1265-1292). At "outer" run_and_notify runs:
\* it returns an error (then run sleeps one second and starts over), or run_inner
\* (1306-1337) drops a stale aggregator, starts one for the next summary to
\* certify when it is built, finds no signature record and returns. At "select"
\* the exit watch has changed, or the notification or the one-second timeout
\* starts the next turn.
AggregatorRun ==
    /\ panicked = "no"
    /\ \/ /\ aggregator.pc = "outer"
          /\ \E ok \in BOOLEAN :
                LET next_to_certify == next_checkpoint_to_certify(store)
                    summary == get_built_checkpoint_summary(epoch_store, next_to_certify)
                    kept == IF /\ IsSome(aggregator.current)
                               /\ Unwrap(aggregator.current).summary.sequence_number < next_to_certify
                            THEN None
                            ELSE aggregator.current
                    current == IF kept = None /\ IsSome(summary)
                               THEN Some(NewCheckpointSignatureAggregator(Unwrap(summary)))
                               ELSE kept
                IN  aggregator' = IF ok
                                  THEN [aggregator EXCEPT !.pc = "select", !.current = current]
                                  ELSE [aggregator EXCEPT !.pc = "sleep"]
       \/ /\ aggregator.pc = "sleep"
          /\ aggregator' = [aggregator EXCEPT !.pc = "outer"]
       \/ /\ aggregator.pc = "select"
          /\ aggregator' = IF aggregator.exit
                           THEN [aggregator EXCEPT !.pc = "exited"]
                           ELSE [aggregator EXCEPT !.pc = "outer"]
    /\ UNCHANGED <<store, epoch_store, panicked, builder, service, output, network>>

RunNext ==
    \/ WriteAndNotifyCheckpoint
    \/ SignalExit
    \/ BuilderRun
    \/ AggregatorRun

\* Both tasks are spawned (mod.rs 1739, 1751) on a runtime that polls a task whose
\* future can make progress; an awaited make_checkpoint, sleep or select returns
SpecShutdown == RunInit /\ [][RunNext]_vars /\ WF_vars(BuilderRun) /\ WF_vars(AggregatorRun)

\* C21: Builder shutdown. Once the exit watch is signalled the Builder starts no
\* further turn of 'main, and it eventually terminates: at the select when it
\* waits for a notification, at the head of 'main after a make_checkpoint that
\* failed, and after the for loop when make_checkpoint completes.
C21_BuilderShutdown ==
    /\ [][builder.exit /\ builder.pc = "main" => builder'.pc \in {"main", "exited"}]_vars
    /\ (builder.exit ~> builder.pc = "exited")

\* The Builder has terminated at the head of 'main after a failed make_checkpoint:
\* the pending checkpoint it was making is still to be built
C21_Witness ==
    /\ builder.exit
    /\ builder.pc = "exited"
    /\ builder.pending # <<>>
    /\ pending_checkpoints_to_build(epoch_store) # {}

\* C22: Aggregator shutdown. Once the exit watch is signalled the Aggregator
\* eventually terminates, also when run_and_notify returns an error on every turn.
C22_AggregatorShutdown == aggregator.exit ~> aggregator.pc = "exited"

----------------------------------------------------------------------------
\* Certified checkpoints once stored (claim C23)

\* The certified checkpoint stored at n stays as it is, signature included
CertifiedKept(n) ==
    /\ n \in DOMAIN store'.certified_checkpoints
    /\ store'.certified_checkpoints[n] = store.certified_checkpoints[n]

\* The summary of the certified checkpoint stored at n stays, in both tables
CertifiedSummaryKept(n) ==
    LET checkpoint == store.certified_checkpoints[n]
    IN  /\ n \in DOMAIN store'.certified_checkpoints
        /\ store'.certified_checkpoints[n].data = checkpoint.data
        /\ Digest(checkpoint.data) \in DOMAIN store'.checkpoint_by_digest
        /\ store'.checkpoint_by_digest[Digest(checkpoint.data)].data = checkpoint.data

\* State sync has inserted the certified checkpoint of sequence number n
Verified(n) ==
    /\ IsSome(store.watermarks["HighestVerified"])
    /\ n <= Unwrap(store.watermarks["HighestVerified"])[1]

\* The original statement: once a certified checkpoint is stored at n, no
\* operation replaces it, not even by another certificate of the same summary.
C23_CertifiedNeverRewritten ==
    [][\A n \in DOMAIN store.certified_checkpoints : CertifiedKept(n)]_vars

\* C23: a certified checkpoint is terminal in its summary. Once a certified
\* checkpoint is stored at n, every later operation leaves the same summary (and
\* digest) at n; when the Aggregator certifies n after state sync inserted n
\* behind its staleness check, it writes n again with its own aggregated
\* signature over that same summary.
C23_CertifiedTerminal ==
    /\ [][\A n \in DOMAIN store.certified_checkpoints : CertifiedSummaryKept(n)]_vars
    /\ [][AggregatorWrites /\ WrittenSequence \in DOMAIN store.certified_checkpoints
             => /\ Verified(WrittenSequence)
                /\ CertifiedSummaryKept(WrittenSequence)]_vars

\* State sync inserted sequence number 1, certified by A alone; the Aggregator,
\* which held the signatures of B and A, has written it again
C23_Witness ==
    /\ panicked = "no"
    /\ Verified(1)
    /\ 1 \in DOMAIN store.certified_checkpoints
    /\ store.certified_checkpoints[1].auth_sig = {"A", "B"}
    /\ store.certified_checkpoints[1].data = NetworkSummary(1)

----------------------------------------------------------------------------
\* Certification by the Aggregator once a quorum of signatures is persisted
\* (claim C24)

\* The validator executes as the network does, the checkpoint output accepts every
\* summary, and consensus delivers each authority's signatures in sequence order
NextCertify ==
    \/ WritePendingCheckpoint
    \/ BuilderMakeCheckpoint
    \/ BuilderWriteCheckpoints(Len(builder.new_checkpoint))
    \/ StateSyncInsertVerifiedCheckpoint
    \/ AggregatorOuter
    \/ AggregatorSignature
    \/ \E authority \in Authorities :
           NotifyCheckpointSignature(authority, NextSignature(authority))
    \/ Reconfigure

\* CheckpointAggregator::run starts run_and_notify on every notification and at
\* the latest one second after the last one returned (mod.rs 1277-1281), and
\* run_inner goes on until it returns: the steps of the Aggregator are taken
\* AggregatorSignature can take a step exactly while run_inner stands in its
\* loop over the signature records: every such step moves next_index or leaves the loop
AggregatorSignatureEnabled == panicked = "no" /\ aggregator.pc = "iter"

\* WF_vars(AggregatorSignature), with ENABLED <<AggregatorSignature>>_vars
\* written as the state predicate above
AggregatorSignatureFair ==
    []<>(~AggregatorSignatureEnabled) \/ []<><<AggregatorSignature>>_vars

SpecCertify ==
    InitAgreed /\ [][NextCertify]_vars /\ WF_vars(AggregatorOuter) /\ AggregatorSignatureFair

\* The authorities whose persisted signature records for sequence number n carry `digest`
SignersOf(n, digest) ==
    {epoch_store.pending_checkpoint_signatures[k].summary.auth_sig.authority :
        k \in {j \in DOMAIN epoch_store.pending_checkpoint_signatures :
                  /\ j[1] = n
                  /\ Digest(epoch_store.pending_checkpoint_signatures[j].summary.data) = digest}}

\* n is the next sequence number to certify, its local summary is built, and
\* signature records for n on the local digest reach the quorum
QuorumPersisted(n) ==
    /\ n = next_checkpoint_to_certify(store)
    /\ IsSome(get_built_checkpoint_summary(epoch_store, n))
    /\ TotalStake(SignersOf(n, Digest(Unwrap(get_built_checkpoint_summary(epoch_store, n)))))
           >= QuorumThreshold

\* The certified output has received the certified checkpoint of sequence number n
Delivered(n) ==
    \E i \in DOMAIN output.certified_checkpoint_created :
        output.certified_checkpoint_created[i].data.sequence_number = n

\* No record of pending_checkpoint_signatures is removed or changed within an epoch
SignaturesKept ==
    epoch_store'.epoch = epoch_store.epoch =>
        \A k \in DOMAIN epoch_store.pending_checkpoint_signatures :
            /\ k \in DOMAIN epoch_store'.pending_checkpoint_signatures
            /\ epoch_store'.pending_checkpoint_signatures[k] =
                   epoch_store.pending_checkpoint_signatures[k]

----------------------------------------------------------------------------
\* complete_checkpoint_effects on its own (claim C25): the list of roots grows one
\* root at a time, in any order, in either epoch, with any of the early
\* transactions already included in a checkpoint, and the Builder completes
\* the list it has

MaxRoots == 3

EffectsBuilder(es, roots) ==
    [ pc |-> "complete",
      roots |-> roots,
      results |->
          complete_checkpoint_effects(
              es, [k \in DOMAIN roots |-> TransactionEffects(roots[k], FALSE)], FALSE) ]

CompleteCheckpointEffects(root) ==
    /\ Len(builder.roots) < MaxRoots
    /\ ExecutedEpoch(root) <= epoch_store.epoch
    /\ \A k \in DOMAIN builder.roots : builder.roots[k] # root
    /\ builder' = EffectsBuilder(epoch_store, Append(builder.roots, root))
    /\ UNCHANGED <<store, epoch_store, panicked, aggregator, service, output, network>>

EffectsInit ==
    /\ store = EmptyStore
    /\ \E epoch \in 0..MaxEpoch, included \in SUBSET {1, 3, 4} :
           epoch_store = [NewEpochStore(epoch) EXCEPT
                             !.builder_digest_to_checkpoint = [d \in included |-> 0]]
    /\ panicked = "no"
    /\ builder = EffectsBuilder(epoch_store, <<>>)
    /\ aggregator = NewAggregator
    /\ service = NewService
    /\ output = NoOutput
    /\ network = NewNetwork(FALSE, 0)

EffectsNext == \E root \in Transactions : CompleteCheckpointEffects(root)

SpecEffects == EffectsInit /\ [][EffectsNext]_vars

\* The roots `complete_checkpoint_effects` skips
SkippedEffect(es, digest) ==
    \/ builder_included_transactions_in_checkpoint(es, digest)
    \/ ExecutedEpoch(digest) < es.epoch

\* The roots and what is reached from them over the dependencies that have an
\* effects signature, going through no skipped effect
RECURSIVE ReachedEffects(_, _)
ReachedEffects(es, reached) ==
    LET more == {d \in Transactions :
                    \E t \in reached :
                        /\ ~SkippedEffect(es, t)
                        /\ d \in DependenciesOf(t)
                        /\ effects_signatures_exists(es, d)}
    IN  IF more \subseteq reached THEN reached ELSE ReachedEffects(es, reached \cup more)

EffectClosure(es, roots) ==
    {t \in ReachedEffects(es, {roots[k] : k \in DOMAIN roots}) : ~SkippedEffect(es, t)}

ResultDigests == {builder.results[k].transaction_digest : k \in DOMAIN builder.results}

\* C25 (part): as a set, the result of complete_checkpoint_effects is the roots and
\* their transitive dependencies with an effects signature in the epoch, without
\* the skipped ones and without what is reached only through them.
C25_ClosureAsSet == ResultDigests = EffectClosure(epoch_store, builder.roots)

\* C25: effect closure. For every list of roots in every order,
\* complete_checkpoint_effects returns no transaction digest twice, and returns
\* exactly the roots and their transitive dependencies that have an effects
\* signature in the epoch, are not included in a checkpoint and were not executed
\* in an earlier epoch, not going through skipped effects.
C25_EffectClosure ==
    /\ \A i, j \in DOMAIN builder.results :
           i # j => builder.results[i].transaction_digest # builder.results[j].transaction_digest
    /\ C25_ClosureAsSet

----------------------------------------------------------------------------
\* What split_checkpoint_chunks returns, against its input (claims C26, C27)

RECURSIVE ConcatChunks(_)
ConcatChunks(chunks) ==
    IF chunks = <<>> THEN <<>> ELSE chunks[1] \o ConcatChunks(Tail(chunks))

\* Chunk k was closed because the first item of chunk k + 1 did not fit
ClosedAtCap(k) ==
    LET chunk == builder.chunks[k]
        following == builder.chunks[k + 1]
    IN  /\ following # <<>>
        /\ \/ Len(chunk) + 1 > builder.max_transactions_per_checkpoint
           \/ ChunkSize(chunk) + following[1].size > builder.max_checkpoint_size_bytes

\* C26: chunk partition. The chunks split_checkpoint_chunks returns, concatenated
\* in order, are the input list, and every chunk but the last is maximal: the
\* first item of the following chunk would have exceeded
\* max_transactions_per_checkpoint or max_checkpoint_size_bytes.
C26_ChunkPartition ==
    /\ ConcatChunks(builder.chunks) = builder.effects
    /\ \A k \in 1..(Len(builder.chunks) - 1) : ClosedAtCap(k)

\* A split of four items into three chunks, one closed at the count cap with room
\* left in bytes, one closed at the byte cap with room left in the count
C26_Witness ==
    /\ Len(builder.effects) = 4
    /\ Len(builder.chunks) = 3
    /\ \E k \in 1..2 :
           /\ Len(builder.chunks[k]) = builder.max_transactions_per_checkpoint
           /\ ChunkSize(builder.chunks[k]) + builder.chunks[k + 1][1].size
                  <= builder.max_checkpoint_size_bytes
    /\ \E k \in 1..2 :
           /\ Len(builder.chunks[k]) < builder.max_transactions_per_checkpoint
           /\ ChunkSize(builder.chunks[k]) + builder.chunks[k + 1][1].size
                  > builder.max_checkpoint_size_bytes

\* The checkpoints create_checkpoints makes of a pending checkpoint without new
\* transactions
HeartbeatCheckpoints(last_of_epoch) ==
    create_checkpoints(store, epoch_store, <<>>,
                       PendingCheckpoint(<<>>, 1, last_of_epoch, 1).details, FALSE).checkpoints

\* C27: empty input chunking. On an empty input split_checkpoint_chunks returns
\* exactly one empty chunk, and a pending checkpoint without new transactions,
\* last of its epoch or not, yields exactly one checkpoint; on a non-empty input
\* it returns at least one chunk and no empty chunk.
C27_EmptyInputChunking ==
    /\ builder.effects = <<>> =>
           /\ builder.chunks = << <<>> >>
           /\ \A last_of_epoch \in BOOLEAN : Len(HeartbeatCheckpoints(last_of_epoch)) = 1
    /\ builder.effects # <<>> =>
           /\ builder.chunks # <<>>
           /\ \A k \in DOMAIN builder.chunks : builder.chunks[k] # <<>>

\* The split of the empty list, under the tightest caps
C27_Witness ==
    /\ builder.pc = "split"
    /\ builder.effects = <<>>
    /\ builder.chunks = << <<>> >>
    /\ builder.max_transactions_per_checkpoint = 0
    /\ builder.max_checkpoint_size_bytes = 0

----------------------------------------------------------------------------
\* create_checkpoints on its own (claim C28): the sorted effects of one pending
\* checkpoint of epoch 0, last of the epoch or not, grow one effect at a time, and
\* the Builder creates the checkpoints of the list it has

MaxCreateInput == 4

CreateBuilder(details, all_effects) ==
    [ pc |-> "create",
      details |-> details,
      all_effects |-> all_effects,
      new_checkpoint |->
          create_checkpoints(
              store, epoch_store,
              [k \in DOMAIN all_effects |-> TransactionEffects(all_effects[k], FALSE)],
              details, FALSE).checkpoints ]

\* One more effect at the end of the causally sorted list
CreateCheckpoints(digest) ==
    /\ Len(builder.all_effects) < MaxCreateInput
    /\ ExecutedEpoch(digest) = epoch_store.epoch
    /\ \A k \in DOMAIN builder.all_effects :
           /\ builder.all_effects[k] # digest
           /\ digest \notin DependenciesOf(builder.all_effects[k])
    /\ builder' = CreateBuilder(builder.details, Append(builder.all_effects, digest))
    /\ UNCHANGED <<store, epoch_store, panicked, aggregator, service, output, network>>

CreateInit ==
    /\ store = EmptyStore
    /\ epoch_store = NewEpochStore(0)
    /\ panicked = "no"
    /\ \E last_of_epoch \in BOOLEAN :
           builder = CreateBuilder(PendingCheckpoint(<<>>, 1, last_of_epoch, 1).details, <<>>)
    /\ aggregator = NewAggregator
    /\ service = NewService
    /\ output = NoOutput
    /\ network = NewNetwork(FALSE, 0)

CreateNext == \E digest \in Transactions : CreateCheckpoints(digest)

SpecCreate == CreateInit /\ [][CreateNext]_vars

\* C28 (part): a checkpoint that is not the last of its epoch has at most
\* max_transactions_per_checkpoint transactions, and the last of the epoch has at
\* most one more.
C28_CountCapButLastOfEpoch ==
    \A i \in DOMAIN builder.new_checkpoint :
        LET summary == builder.new_checkpoint[i][1]
            contents == builder.new_checkpoint[i][2]
        IN  Len(contents) <= max_transactions_per_checkpoint
                                 + (IF IsSome(summary.end_of_epoch_data) THEN 1 ELSE 0)

\* C28: per-checkpoint count cap. Every checkpoint create_checkpoints makes has at
\* most max_transactions_per_checkpoint transactions, the last checkpoint of an
\* epoch with its advance_epoch transaction included.
C28_CountCap ==
    \A i \in DOMAIN builder.new_checkpoint :
        Len(builder.new_checkpoint[i][2]) <= max_transactions_per_checkpoint

----------------------------------------------------------------------------
\* write_checkpoints: what has reached the checkpoint output, against what is
\* stored (claim C29)

Emitted == {output.checkpoint_created[i] : i \in DOMAIN output.checkpoint_created}

\* The summaries the last-built cursor of the epoch has passed
CursorPassed ==
    {epoch_store.builder_checkpoint_summary[n].summary :
        n \in DOMAIN epoch_store.builder_checkpoint_summary}

\* C29 (part): the last-built cursor is advanced over a summary only after the
\* summary was handed to the checkpoint output and stored with its contents.
C29_CursorAfterPublishAndPersist ==
    \A summary \in CursorPassed :
        /\ summary \in Emitted
        /\ summary.sequence_number \in DOMAIN LocalCheckpoints
        /\ summary.content_digest \in DOMAIN store.checkpoint_content

\* C29: persist before publish. A summary has reached the checkpoint output only
\* when the batch holding it and its contents is committed and its fork check
\* against a certified checkpoint at its sequence has passed; and the last-built
\* cursor is advanced only after that.
C29_PersistBeforePublish ==
    /\ \A summary \in Emitted :
           /\ summary.sequence_number \in DOMAIN LocalCheckpoints
           /\ summary.content_digest \in DOMAIN store.checkpoint_content
    /\ panicked = "fork: write_checkpoints" =>
           \A i \in DOMAIN builder.new_checkpoint : builder.new_checkpoint[i][1] \notin Emitted
    /\ C29_CursorAfterPublishAndPersist

----------------------------------------------------------------------------
\* insert_certified_checkpoint cut by a crash (claim C30): the store's operations
\* on the one chain the network certifies, a crash at any point of
\* insert_certified_checkpoint, and the restart on the tables the crash left

\* How far insert_certified_checkpoint came before the crash: 0..2 insert_batch
\* calls done, or (WriteDone) batch.write() done
WriteDone == 3

CrashPoints == 0..WriteDone

\* Tables written one insert at a time, with no batch
insert_certified_checkpoint_unbatched(s, checkpoint, point) ==
    [s EXCEPT
        !.certified_checkpoints =
            IF point >= 1 THEN Put(@, checkpoint.data.sequence_number, checkpoint) ELSE @,
        !.checkpoint_by_digest =
            IF point >= 2 THEN Put(@, Digest(checkpoint.data), checkpoint) ELSE @,
        !.epoch_last_checkpoint_map =
            IF point >= 3 /\ IsSome(checkpoint.data.end_of_epoch_data)
            THEN Put(@, checkpoint.data.epoch, checkpoint.data.sequence_number)
            ELSE @]

\* The tables a crash of insert_certified_checkpoint at `point` leaves: the batch
\* reaches them in batch.write() (mod.rs 451), whole
insert_certified_checkpoint_crashed(s, checkpoint, point) ==
    IF point < WriteDone THEN s ELSE insert_certified_batch(s, checkpoint)

InsertCertifiedCheckpointCrashes(c, point) ==
    /\ panicked = "no"
    /\ store' = insert_certified_checkpoint_crashed(store, c, point)
    /\ panicked' = "crash"
    /\ UNCHANGED <<epoch_store, tasks>>

Restart ==
    /\ panicked = "crash"
    /\ panicked' = "no"
    /\ UNCHANGED <<store, epoch_store, tasks>>

CrashNext ==
    \/ \E c \in StoreCheckpoints :
        \/ InsertCertifiedCheckpoint(c)
        \/ InsertVerifiedCheckpoint(c)
        \/ UpdateHighestVerifiedCheckpoint(c)
        \/ UpdateHighestSyncedCheckpoint(c)
        \/ UpdateHighestExecutedCheckpoint(c)
        \/ UpdateHighestPrunedCheckpoint(c)
        \/ SetHighestExecutedCheckpointSubtle(c)
        \/ InsertGenesisCheckpoint(c, ContentsOf(c))
    \/ \E c \in StoreCheckpoints, point \in CrashPoints : InsertCertifiedCheckpointCrashes(c, point)
    \/ Restart

SpecCrash == StoreInit /\ [][CrashNext]_vars

StoredBySequence(c) ==
    /\ c.data.sequence_number \in DOMAIN store.certified_checkpoints
    /\ store.certified_checkpoints[c.data.sequence_number] = c

StoredByDigest(c) ==
    /\ Digest(c.data) \in DOMAIN store.checkpoint_by_digest
    /\ store.checkpoint_by_digest[Digest(c.data)] = c

StoredAsEpochLast(c) ==
    /\ c.data.epoch \in DOMAIN store.epoch_last_checkpoint_map
    /\ store.epoch_last_checkpoint_map[c.data.epoch] = c.data.sequence_number

----------------------------------------------------------------------------
\* notify_checkpoint_signature called concurrently (claim C31): the callers of the
\* consensus handler run the statements of the call one at a time, in any
\* interleaving, while state sync stores certified checkpoints

Callers == {"c1", "c2"}

MaxSignedSequence == 1

IdleCall == [pc |-> "idle", info |-> None, index |-> 0]

\* CheckpointService with its mutex around last_signature_index, the permit of
\* notify_aggregator and the calls of notify_checkpoint_signature under way
NewConcurrentService ==
    [ last_signature_index |-> 0,
      lock |-> None,
      notify_aggregator |-> FALSE,
      calls |-> [c \in Callers |-> IdleCall] ]

\* A last_signature_index that is handed out with no mutex held
lock_not_needed(svc) == TRUE

\* self.last_signature_index.lock() returns when no caller holds the guard
lock_free(svc) == svc.lock = None

SignatureCall(c, authority, sequence) ==
    /\ service.calls[c].pc = "idle"
    /\ service.last_signature_index < MaxSignatures
    /\ service' = [service EXCEPT
                      !.calls[c] =
                          [ pc |-> "certified",
                            info |-> Some(CheckpointSignatureMessage(NetworkSummary(sequence),
                                                                     authority)),
                            index |-> 0 ]]
    /\ UNCHANGED <<store, epoch_store, panicked, builder, aggregator, output, network>>

\* mod.rs 1792-1807: the signature of a certified sequence is ignored
SignatureCertified(c) ==
    /\ service.calls[c].pc = "certified"
    /\ LET sequence == Unwrap(service.calls[c].info).summary.data.sequence_number
           last_certified == LastKey(store.certified_checkpoints)
       IN  service' = [service EXCEPT
                          !.calls[c] =
                              IF IsSome(last_certified) /\ sequence <= Unwrap(last_certified)
                              THEN IdleCall
                              ELSE [@ EXCEPT !.pc = "lock"]]
    /\ UNCHANGED <<store, epoch_store, panicked, builder, aggregator, output, network>>

\* mod.rs 1820-1821: lock(), then *index += 1 under the guard
SignatureLock(c) ==
    /\ service.calls[c].pc = "lock"
    /\ lock_free(service)
    /\ service' = [service EXCEPT
                      !.lock = Some(c),
                      !.last_signature_index = @ + 1,
                      !.calls[c] = [@ EXCEPT !.pc = "insert",
                                             !.index = service.last_signature_index + 1]]
    /\ UNCHANGED <<store, epoch_store, panicked, builder, aggregator, output, network>>

\* mod.rs 1822
SignatureInsert(c) ==
    /\ service.calls[c].pc = "insert"
    /\ LET info == Unwrap(service.calls[c].info)
       IN  epoch_store' = insert_checkpoint_signature(
                              epoch_store, info.summary.data.sequence_number,
                              service.calls[c].index, info)
    /\ service' = [service EXCEPT !.calls[c] = [@ EXCEPT !.pc = "notify"]]
    /\ UNCHANGED <<store, panicked, builder, aggregator, output, network>>

\* mod.rs 1823-1824: notify_one(), and the guard is dropped on return
SignatureNotify(c) ==
    /\ service.calls[c].pc = "notify"
    /\ service' = [service EXCEPT
                      !.notify_aggregator = TRUE,
                      !.lock = IF @ = Some(c) THEN None ELSE @,
                      !.calls[c] = IdleCall]
    /\ UNCHANGED <<store, epoch_store, panicked, builder, aggregator, output, network>>

\* The Aggregator wakes up on the permit (mod.rs 1277-1281)
AggregatorNotified ==
    /\ service.notify_aggregator
    /\ service' = [service EXCEPT !.notify_aggregator = FALSE]
    /\ UNCHANGED <<store, epoch_store, panicked, builder, aggregator, output, network>>

ConcurrentInit ==
    /\ store = EmptyStore
    /\ epoch_store = NewEpochStore(0)
    /\ panicked = "no"
    /\ builder = NewBuilder
    /\ aggregator = NewAggregator
    /\ service = NewConcurrentService
    /\ output = NoOutput
    /\ network = NewNetwork(FALSE, 0)

StateSyncCertifies ==
    /\ LastKey(store.certified_checkpoints) = None
    /\ StateSyncInsertVerifiedCheckpoint

ConcurrentNext ==
    \/ \E c \in Callers :
        \/ \E authority \in Authorities, sequence \in 0..MaxSignedSequence :
               SignatureCall(c, authority, sequence)
        \/ SignatureCertified(c)
        \/ SignatureLock(c)
        \/ SignatureInsert(c)
        \/ SignatureNotify(c)
    \/ AggregatorNotified
    \/ StateSyncCertifies

SpecConcurrent == ConcurrentInit /\ [][ConcurrentNext]_vars

PendingSignatures == epoch_store.pending_checkpoint_signatures

SignatureIndices == {key[2] : key \in DOMAIN PendingSignatures}

\* C31: under any interleaving of concurrent notify_checkpoint_signature calls,
\* no two persisted records have the same index; and every step that persists a
\* signature adds one record, the signature of the call, under an index above
\* every index persisted before, and leaves the records persisted before as they
\* were; and the permit of the Aggregator is given with the guard held.
C31_SignatureIndex ==
    /\ [](\A k1, k2 \in DOMAIN PendingSignatures : k1[2] = k2[2] => k1 = k2)
    /\ [][PendingSignatures' # PendingSignatures =>
             \E c \in Callers, key \in DOMAIN PendingSignatures' :
                 /\ service.calls[c].pc = "insert"
                 /\ service.lock = Some(c)
                 /\ key \notin DOMAIN PendingSignatures
                 /\ DOMAIN PendingSignatures' = DOMAIN PendingSignatures \cup {key}
                 /\ \A k \in DOMAIN PendingSignatures :
                        /\ PendingSignatures'[k] = PendingSignatures[k]
                        /\ k[2] < key[2]
                 /\ PendingSignatures'[key] = Unwrap(service.calls[c].info)]_vars
    /\ [][service'.notify_aggregator /\ ~service.notify_aggregator =>
             \E c \in Callers : service.lock = Some(c) /\ service.calls[c].pc = "notify"]_vars

\* Two calls for the same sequence number under way at once: one has persisted its
\* record and holds the guard, the other waits for the guard; an earlier record is
\* persisted
C31_Witness ==
    /\ service.calls["c1"].pc = "notify"
    /\ service.calls["c2"].pc = "lock"
    /\ service.lock = Some("c1")
    /\ Unwrap(service.calls["c1"].info).summary.data.sequence_number
           = Unwrap(service.calls["c2"].info).summary.data.sequence_number
    /\ Cardinality(DOMAIN PendingSignatures) = 2

----------------------------------------------------------------------------
\* Two Builders on the same input (claim C32): the same roots, effects and
\* stores, each Builder with the iteration order of its own HashSet; the list of
\* roots grows one root at a time and both Builders make their checkpoints of it

HashSetOrders == {<<1, 2, 3, 4, 5, 6>>, <<6, 5, 4, 3, 2, 1>>, <<3, 1, 4, 6, 2, 5>>}

TwoBuilders(orders, details, roots) ==
    LET pending == [roots |-> roots, details |-> details]
        effects == [k \in DOMAIN roots |-> TransactionEffects(roots[k], FALSE)]
    IN  [ pc |-> "made",
          orders |-> orders,
          details |-> details,
          roots |-> roots,
          unsorted |->
              [b \in DOMAIN orders |->
                  complete_checkpoint_effects_from(epoch_store, effects, <<>>, {}, orders[b], FALSE)],
          new_checkpoint |->
              [b \in DOMAIN orders |->
                  make_new_checkpoint_iterating(store, epoch_store, pending, orders[b], FALSE)] ]

MakeCheckpointTwice(root) ==
    /\ Len(builder.roots) < MaxRoots
    /\ ExecutedEpoch(root) <= epoch_store.epoch
    /\ \A k \in DOMAIN builder.roots : builder.roots[k] # root
    /\ builder' = TwoBuilders(builder.orders, builder.details, Append(builder.roots, root))
    /\ UNCHANGED <<store, epoch_store, panicked, aggregator, service, output, network>>

TwoBuildersInit ==
    /\ store = EmptyStore
    /\ \E included \in SUBSET {1} :
           epoch_store = [NewEpochStore(0) EXCEPT
                             !.builder_digest_to_checkpoint = [d \in included |-> 0]]
    /\ panicked = "no"
    /\ \E first, second \in HashSetOrders, last_of_epoch \in BOOLEAN :
           builder = TwoBuilders(<<first, second>>,
                                 PendingCheckpoint(<<>>, 1, last_of_epoch, 1).details, <<>>)
    /\ aggregator = NewAggregator
    /\ service = NewService
    /\ output = NoOutput
    /\ network = NewNetwork(FALSE, 0)

TwoBuildersNext == \E root \in Transactions : MakeCheckpointTwice(root)

SpecTwoBuilders == TwoBuildersInit /\ [][TwoBuildersNext]_vars

\* C32: determinism. Two Builders given the same pending roots, effects and store
\* state make the same checkpoints, contents and summaries, whatever the order in
\* which each one's effect closure hands out the dependencies it found and
\* wherever the closure put its duplicates.
C32_Determinism == builder.new_checkpoint[1] = builder.new_checkpoint[2]

\* Roots whose closure comes out in two different orders, with a transaction twice
\* in it, and one pair of checkpoints with four transactions made of both
C32_Witness ==
    /\ builder.unsorted[1] # builder.unsorted[2]
    /\ \E i, j \in DOMAIN builder.unsorted[1] :
           i # j /\ builder.unsorted[1][i] = builder.unsorted[1][j]
    /\ ~builder.new_checkpoint[1].panic
    /\ Len(builder.new_checkpoint[1].checkpoints) = 2
    /\ builder.new_checkpoint[1] = builder.new_checkpoint[2]

----------------------------------------------------------------------------
\* The signature aggregator of one checkpoint over any committee (claims C33 - C35):
\* the Builder has built checkpoint 0, the validators of a committee sign it or
\* another summary at its sequence number, and the Aggregator takes the persisted
\* signatures one at a time, with the split-brain check and its diagnostics

MaxVotes == 3

MaxStake == 2

Validators == {"v1", "v2", "v3"}

Committees == [Validators -> 1..MaxStake]

RECURSIVE StakeOf(_, _)
StakeOf(committee, authorities) ==
    IF authorities = {}
    THEN 0
    ELSE LET a == CHOOSE x \in authorities : TRUE
         IN  committee[a] + StakeOf(committee, authorities \ {a})

\* Committee::quorum_threshold
threshold(committee) == (2 * StakeOf(committee, Validators)) \div 3 + 1

\* MultiStakeAggregator::insert over the committee of the aggregator
stake_aggregator_insert(committee, signatures_by_digest, k, authority) ==
    LET signed == IF k \in DOMAIN signatures_by_digest THEN signatures_by_digest[k] ELSE {}
    IN  IF authority \notin DOMAIN committee \/ authority \in signed
        THEN [result |-> "Failed", map |-> signatures_by_digest]
        ELSE IF StakeOf(committee, signed \cup {authority}) >= threshold(committee)
        THEN [result |-> "QuorumReached",
              map |-> Put(signatures_by_digest, k, signed \cup {authority}),
              cert |-> signed \cup {authority}]
        ELSE [result |-> "NotEnoughVotes",
              map |-> Put(signatures_by_digest, k, signed \cup {authority})]

\* The authorities that signed some digest
voted_authorities(signatures_by_digest) ==
    UNION {signatures_by_digest[k] : k \in DOMAIN signatures_by_digest}

\* An uncommitted stake that counts a validator once for every digest it signed
uncommitted_stake_per_vote(committee, signatures_by_digest) ==
    LET RECURSIVE votes(_)
        votes(keys) ==
            IF keys = {}
            THEN 0
            ELSE LET k == CHOOSE x \in keys : TRUE
                 IN  StakeOf(committee, signatures_by_digest[k]) + votes(keys \ {k})
    IN  StakeOf(committee, Validators) - votes(DOMAIN signatures_by_digest)

uncommitted_stake(committee, signatures_by_digest) ==
    StakeOf(committee, Validators) - StakeOf(committee, voted_authorities(signatures_by_digest))

\* max(stake per digest)
plurality_stake(committee, signatures_by_digest) ==
    LET stakes == {StakeOf(committee, signatures_by_digest[k]) : k \in DOMAIN signatures_by_digest}
    IN  IF stakes = {} THEN 0 ELSE CHOOSE s \in stakes : \A other \in stakes : other <= s

\* quorum_unreachable() = (total stake - uncommitted stake - max(stake per digest))
\*                        < quorum threshold
quorum_unreachable(committee, signatures_by_digest) ==
    StakeOf(committee, Validators)
        - uncommitted_stake(committee, signatures_by_digest)
        - plurality_stake(committee, signatures_by_digest)
      < threshold(committee)

\* A check_for_split_brain that halts the Aggregator on a split brain
check_for_split_brain_halting(current) ==
    LET split == quorum_unreachable(current.committee, current.signatures_by_digest)
    IN  [ split_brain |-> split, halt |-> split ]

\* check_for_split_brain (mod.rs 1458-1495): on a split brain it counts
\* split_brain_checkpoint_forks and spawns diagnose_split_brain; halt_all_execution
\* stays commented out
check_for_split_brain(current) ==
    [ split_brain |-> quorum_unreachable(current.committee, current.signatures_by_digest),
      halt |-> FALSE ]

\* A try_aggregate that leaves the split-brain check out after a failed insert
try_aggregate_checking_votes_only(current, data) ==
    LET their_digest == Digest(data.summary.data)
        inserted == stake_aggregator_insert(current.committee, current.signatures_by_digest,
                                            their_digest, data.summary.auth_sig.authority)
        current1 == [current EXCEPT !.signatures_by_digest = inserted.map]
    IN  CASE inserted.result = "QuorumReached" ->
                 [ ok |-> their_digest = current.digest, result |-> inserted.result,
                   cert |-> inserted.cert, check |-> None, current |-> current1 ]
          [] inserted.result = "NotEnoughVotes" ->
                 [ ok |-> FALSE, result |-> inserted.result, cert |-> {},
                   check |-> Some(check_for_split_brain(current1)), current |-> current1 ]
          [] OTHER ->
                 [ ok |-> FALSE, result |-> inserted.result, cert |-> {},
                   check |-> None, current |-> current1 ]

\* try_aggregate (mod.rs 1409-1453) with what it did of the split-brain check:
\* `check` is None when check_for_split_brain was not called
try_aggregate_checking(current, data) ==
    LET their_digest == Digest(data.summary.data)
        inserted == stake_aggregator_insert(current.committee, current.signatures_by_digest,
                                            their_digest, data.summary.auth_sig.authority)
        current1 == [current EXCEPT !.signatures_by_digest = inserted.map]
    IN  CASE inserted.result = "QuorumReached" ->
                 [ ok |-> their_digest = current.digest, result |-> inserted.result,
                   cert |-> inserted.cert, check |-> None, current |-> current1 ]
          [] OTHER ->
                 [ ok |-> FALSE, result |-> inserted.result, cert |-> {},
                   check |-> Some(check_for_split_brain(current1)), current |-> current1 ]

\* diagnose_split_brain (mod.rs 1503-1684): the task panics when no digest but the
\* local one was signed; otherwise it asks one validator per other digest and
\* writes its dump of those that answered
diagnose_split_brain(all_unique_values, local_digest, answered) ==
    IF all_unique_values \ {local_digest} = {}
    THEN "panicked"
    ELSE IF answered THEN "dump" ELSE "dump without peers"

\* The summary a validator signs at sequence 0: the one the network built, or one
\* of its own
SignedSummary(variant) ==
    IF variant = 0
    THEN NetworkSummary(0)
    ELSE [NetworkSummary(0) EXCEPT !.timestamp_ms = @ + variant]

SummaryVariants == 0..2

\* CheckpointAggregator with the committee of the epoch, the metric
\* split_brain_checkpoint_forks, the diagnostics spawned and how they ended
NewCommitteeAggregator(committee) ==
    [ pc |-> "outer",
      committee |-> committee,
      current |-> None,
      halted |-> FALSE,
      last |-> None,
      split_brain_checkpoint_forks |-> 0,
      spawned |-> <<>>,
      diagnosed |-> {} ]

SplitBrainInit ==
    /\ store = write_checkpoints_batch(EmptyStore, <<NetworkChain[1]>>)
    /\ epoch_store =
           process_pending_checkpoint(
               write_pending_checkpoint(NewEpochStore(0), PendingCheckpoints(0)[1]),
               1, <<NetworkChain[1]>>, 1)
    /\ panicked = "no"
    /\ builder = NewBuilder
    /\ \E committee \in Committees : aggregator = NewCommitteeAggregator(committee)
    /\ service = NewService
    /\ output = NoOutput
    /\ network = NewNetwork(FALSE, 0)

\* Consensus delivers a validator's signature of a summary at sequence 0
NotifyVote(authority, variant) ==
    /\ panicked = "no"
    /\ service.last_signature_index < MaxVotes
    /\ LET notified == notify_checkpoint_signature(
                           store, service, epoch_store,
                           CheckpointSignatureMessage(SignedSummary(variant), authority))
       IN  /\ service' = notified.service
           /\ epoch_store' = notified.epoch_store
    /\ UNCHANGED <<store, panicked, builder, aggregator, output, network>>

\* The head of the 'outer loop of run_inner (mod.rs 1306-1337)
CommitteeAggregatorOuter ==
    /\ panicked = "no"
    /\ ~aggregator.halted
    /\ aggregator.current = None
    /\ LET summary == get_built_checkpoint_summary(epoch_store, next_checkpoint_to_certify(store))
       IN  /\ IsSome(summary)
           /\ aggregator' =
                  [aggregator EXCEPT
                      !.current =
                          Some([ next_index |-> 0,
                                 summary |-> Unwrap(summary),
                                 digest |-> Digest(Unwrap(summary)),
                                 committee |-> aggregator.committee,
                                 signatures_by_digest |-> EmptyMap ])]
    /\ UNCHANGED <<store, epoch_store, panicked, builder, service, output, network>>

\* One turn of the loop of run_inner over the pending signatures (mod.rs 1343-1391);
\* after a certificate run_inner finds no further built summary and run_and_notify
\* hands the certified checkpoint to the output
CommitteeAggregatorSignature ==
    /\ panicked = "no"
    /\ ~aggregator.halted
    /\ IsSome(aggregator.current)
    /\ LET current == Unwrap(aggregator.current)
           keys == get_pending_checkpoint_signatures_iter(
                       epoch_store, current.summary.sequence_number, current.next_index)
       IN  /\ keys # {}
           /\ FirstKey(keys)[1] = current.summary.sequence_number
           /\ LET index == FirstKey(keys)[2]
                  data == epoch_store.pending_checkpoint_signatures[FirstKey(keys)]
                  aggregated == try_aggregate_checking(current, data)
                  summary == VerifiedCheckpoint(current.summary, aggregated.cert)
                  last == Some([ result |-> aggregated.result,
                                 digest |-> Digest(data.summary.data),
                                 check |-> aggregated.check ])
                  split == IsSome(aggregated.check) /\ Unwrap(aggregated.check).split_brain
              IN  IF aggregated.ok
                  THEN /\ Return(insert_certified_checkpoint(store, summary),
                                 "fork: insert_certified_checkpoint")
                       /\ aggregator' = [aggregator EXCEPT !.current = None, !.last = last]
                       /\ output' = [output EXCEPT !.certified_checkpoint_created =
                                         Append(@, summary)]
                  ELSE /\ aggregator' =
                              [aggregator EXCEPT
                                  !.current = Some([aggregated.current EXCEPT
                                                       !.next_index = next_index_after(index)]),
                                  !.last = last,
                                  !.halted = IsSome(aggregated.check)
                                                 /\ Unwrap(aggregated.check).halt,
                                  !.split_brain_checkpoint_forks = IF split THEN @ + 1 ELSE @,
                                  !.spawned =
                                      IF split
                                      THEN Append(@, DOMAIN aggregated.current.signatures_by_digest)
                                      ELSE @]
                       /\ UNCHANGED <<store, panicked, output>>
    /\ UNCHANGED <<epoch_store, builder, service, network>>

\* A spawned diagnose_split_brain runs to its end
DiagnoseSplitBrain(answered) ==
    /\ panicked = "no"
    /\ aggregator.spawned # <<>>
    /\ aggregator' =
           [aggregator EXCEPT
               !.spawned = Tail(@),
               !.diagnosed =
                   @ \cup {diagnose_split_brain(Head(aggregator.spawned),
                                                Digest(NetworkSummary(0)), answered)}]
    /\ UNCHANGED <<store, epoch_store, panicked, builder, service, output, network>>

SplitBrainNext ==
    \/ \E authority \in Validators, variant \in SummaryVariants : NotifyVote(authority, variant)
    \/ CommitteeAggregatorOuter
    \/ CommitteeAggregatorSignature
    \/ \E answered \in BOOLEAN : DiagnoseSplitBrain(answered)

SpecSplitBrain == SplitBrainInit /\ [][SplitBrainNext]_vars


----------------------------------------------------------------------------
\* Claims C33 - C35 over SpecSplitBrain

LocalDigest == Digest(NetworkSummary(0))

\* C33 (as stated): the split-brain check runs after every signature the Aggregator
\* processes, whatever the outcome of the insert (failed, not enough votes, quorum
\* reached on the local or on a differing digest)
C33_CheckAfterEverySignature ==
    IsSome(aggregator.last) => IsSome(Unwrap(aggregator.last).check)

\* C33 (amended): the split-brain check runs after exactly the signatures whose
\* insert failed or left the digest without quorum; when the insert reaches
\* quorum, on the local digest or on a differing one, try_aggregate returns
\* without the check
C33_CheckAfterFailedOrNotEnoughVotes ==
    IsSome(aggregator.last) =>
        LET last == Unwrap(aggregator.last)
        IN  /\ last.result \in {"Failed", "NotEnoughVotes", "QuorumReached"}
            /\ IsSome(last.check) <=> last.result \in {"Failed", "NotEnoughVotes"}

\* A signature whose insert failed was processed, with the check
C33_Witness ==
    /\ IsSome(aggregator.last)
    /\ Unwrap(aggregator.last).result = "Failed"
    /\ IsSome(Unwrap(aggregator.last).check)

\* Quorum was reached on a differing digest, without the check
C33_WitnessQuorumOnOtherDigest ==
    /\ IsSome(aggregator.last)
    /\ Unwrap(aggregator.last).result = "QuorumReached"
    /\ Unwrap(aggregator.last).digest # LocalDigest
    /\ Unwrap(aggregator.last).check = None

\* The signatures the Aggregator has not taken yet
SignaturesAhead ==
    IF aggregator.current = None
    THEN {}
    ELSE get_pending_checkpoint_signatures_iter(
             epoch_store, Unwrap(aggregator.current).summary.sequence_number,
             Unwrap(aggregator.current).next_index)

\* The guard of CommitteeAggregatorSignature: the Aggregator runs and a signature
\* of its sequence number is ahead of next_index
CommitteeAggregatorTakesSignature ==
    /\ panicked = "no"
    /\ ~aggregator.halted
    /\ SignaturesAhead # {}
    /\ FirstKey(SignaturesAhead)[1] = Unwrap(aggregator.current).summary.sequence_number

\* C34: a split brain is not fatal and leaves the store alone: the step of the
\* Aggregator that finds quorum unreachable, and every step of the diagnostics it
\* spawned, change no table and no watermark of the checkpoint store, the
\* Aggregator neither halts nor panics, and it takes the signatures that follow
C34_SplitBrainNonFatal ==
    /\ [][ (\/ aggregator'.split_brain_checkpoint_forks # aggregator.split_brain_checkpoint_forks
            \/ aggregator'.spawned # aggregator.spawned
            \/ aggregator'.diagnosed # aggregator.diagnosed)
           => /\ store' = store
              /\ panicked' = "no"
              /\ ~aggregator'.halted ]_vars
    /\ [](aggregator.split_brain_checkpoint_forks > 0 /\ SignaturesAhead # {}
            => CommitteeAggregatorTakesSignature)

\* After a split brain was found and diagnosed, the Aggregator took further
\* signatures and certified the checkpoint
C34_Witness ==
    /\ aggregator.split_brain_checkpoint_forks > 0
    /\ aggregator.diagnosed # {}
    /\ Len(output.certified_checkpoint_created) = 1
    /\ IsSome(aggregator.last)
    /\ Unwrap(aggregator.last).result = "QuorumReached"

\* No digest can still reach quorum, however the validators that have not voted
\* vote
NoDigestCanReachQuorum(committee, signatures_by_digest) ==
    LET outstanding == Validators \ voted_authorities(signatures_by_digest)
        digests == {Digest(SignedSummary(variant)) : variant \in SummaryVariants}
        signed(k) == IF k \in DOMAIN signatures_by_digest THEN signatures_by_digest[k] ELSE {}
    IN  \A k \in digests, voting \in SUBSET outstanding :
            StakeOf(committee, signed(k) \cup voting) < threshold(committee)

----------------------------------------------------------------------------
\* The Builder at the start of an epoch past genesis (claim C36): the tasks start
\* on the store of epoch 1 while state sync fills the checkpoint store

EpochStartInit ==
    /\ store = EmptyStore
    /\ epoch_store = NewEpochStore(1)
    /\ panicked = "no"
    /\ builder = NewBuilder
    /\ aggregator = NewAggregator
    /\ service = NewService
    /\ output = NoOutput
    /\ network \in {NewNetwork(diverged, FirstSequence(1)) : diverged \in BOOLEAN}

EpochStartNext ==
    \/ WritePendingCheckpoint
    \/ BuilderMakeCheckpoint
    \/ \E created \in 0..max_transactions_per_checkpoint : BuilderWriteCheckpoints(created)
    \/ StateSyncInsertVerifiedCheckpoint
    \/ AggregatorOuter
    \/ AggregatorSignature
    \/ \E authority \in Authorities :
           NotifyCheckpointSignature(authority, NextSignature(authority))

SpecEpochStart == EpochStartInit /\ [][EpochStartNext]_vars

\* make_checkpoint runs with no last built summary in an epoch past genesis
EpochStartMake ==
    /\ builder.pc = "main"
    /\ last_built_checkpoint_summary(epoch_store) = None
    /\ epoch_store.epoch > 0
    /\ \/ builder'.pc = "write"
       \/ panicked' = "panic: create_checkpoints"

\* C36: when the per-epoch store has no last built summary and the epoch is past
\* genesis, create_checkpoints panics and produces no checkpoint if the store has
\* no last checkpoint of the previous epoch; if it has one, the first checkpoint
\* built has its sequence number + 1, its digest as previous_digest, its
\* network_total_transactions plus the checkpoint's own transactions, and a rolling
\* gas cost that counts the checkpoint's own effects only
C36_EpochStart ==
    [][ EpochStartMake =>
          LET last == get_epoch_last_checkpoint(store, epoch_store.epoch - 1)
          IN  IF last = None
              THEN /\ panicked' = "panic: create_checkpoints"
                   /\ builder' = builder
                   /\ store' = store
                   /\ epoch_store' = epoch_store
                   /\ output' = output
              ELSE /\ panicked' = "no"
                   /\ builder'.new_checkpoint # <<>>
                   /\ LET first == builder'.new_checkpoint[1][1]
                          contents == builder'.new_checkpoint[1][2]
                      IN  /\ first.epoch = epoch_store.epoch
                          /\ first.sequence_number = Unwrap(last).data.sequence_number + 1
                          /\ first.previous_digest = Some(Digest(Unwrap(last).data))
                          /\ first.network_total_transactions =
                                 Unwrap(last).data.network_total_transactions + Len(contents)
                          /\ first.epoch_rolling_gas_cost_summary = GasOfContents(contents) ]_vars

\* The Builder built the first checkpoint of epoch 1 from the last checkpoint of
\* epoch 0 that state sync had stored
C36_Witness ==
    /\ builder.pc = "write"
    /\ last_built_checkpoint_summary(epoch_store) = None
    /\ builder.new_checkpoint[1][1].sequence_number = FirstSequence(1)
    /\ IsSome(get_epoch_last_checkpoint(store, 0))

\* The Builder panicked for want of the last checkpoint of epoch 0
C36_WitnessPanic ==
    /\ panicked = "panic: create_checkpoints"
    /\ get_epoch_last_checkpoint(store, 0) = None
    /\ builder.new_checkpoint = <<>>


----------------------------------------------------------------------------
\* What the Aggregator certifies (claim C37)

\* The Aggregator writes a certified checkpoint: run_inner pushes it to its result
\* after insert_certified_checkpoint returned
AggregatorCertifies ==
    /\ Len(aggregator'.result) = Len(aggregator.result) + 1
    /\ panicked' = "no"

\* C37: the Aggregator certifies only what was built locally: for every certified
\* checkpoint it writes, the locally built summary of that sequence number exists
\* and is the summary inside the certified checkpoint, whatever digests the peers'
\* signatures were aggregated under
C37_CertifiesLocallyBuilt ==
    [][ AggregatorCertifies =>
          LET certified == aggregator'.result[Len(aggregator'.result)]
              sequence == certified.data.sequence_number
              built == get_built_checkpoint_summary(epoch_store, sequence)
          IN  /\ IsSome(built)
              /\ certified.data = Unwrap(built)
              /\ Get(store'.certified_checkpoints, sequence) = Some(certified) ]_vars

\* The Aggregator certified the summary it had built of checkpoint 1
C37_Witness ==
    /\ Len(aggregator.result) = 1
    /\ aggregator.result[1].data.sequence_number = 1
    /\ Get(store.certified_checkpoints, 1) = Some(aggregator.result[1])
    /\ Get(store.locally_computed_checkpoints, 1) = Some(aggregator.result[1].data)


----------------------------------------------------------------------------
\* The wake-up of the Builder (claim C38): the run loop of CheckpointBuilder with
\* the permit of notify_builder, while consensus writes and announces the pending
\* checkpoints of epoch 0 and make_checkpoint may fail any number of times

WakeUpNext ==
    \/ WriteAndNotifyCheckpoint
    \/ BuilderRun
    \/ AggregatorRun

\* BuilderRunFor can take a step exactly while run stands in its for loop with a
\* pending checkpoint to make
BuilderRunForEnabled == panicked = "no" /\ builder.pc = "for" /\ builder.pending # <<>>

\* Errors are not permanent: SF_vars(BuilderRunFor(TRUE)), with
\* ENABLED <<BuilderRunFor(TRUE)>>_vars written as the state predicate above. A
\* make_checkpoint that is called again and again completes in the end
MakeCheckpointCompletes ==
    <>[](~BuilderRunForEnabled) \/ []<><<BuilderRunFor(TRUE)>>_vars

\* The Builder is polled whenever it can run (mod.rs 1739), and make_checkpoint
\* does not fail for ever
SpecWakeUp ==
    /\ RunInit
    /\ [][WakeUpNext]_vars
    /\ WF_vars(BuilderRun)
    /\ MakeCheckpointCompletes

\* The pending checkpoint of the commit height has been built
BuiltHeight(height) ==
    /\ IsSome(last_built_checkpoint_commit_height(epoch_store))
    /\ Unwrap(last_built_checkpoint_commit_height(epoch_store)) >= height

\* C38: the wake-up of the Builder is never lost: every pending checkpoint that is
\* written to the pending queue and announced with notify_checkpoint is eventually
\* built, wherever the Builder stands when the notification arrives
C38_WakeUpNotLost ==
    \A height \in 1..Len(PendingCheckpoints(0)) :
        (height \in DOMAIN epoch_store.pending_checkpoints) ~> BuiltHeight(height)

\* Both pending checkpoints were announced while the Builder slept after a failed
\* make_checkpoint, leaving one permit, and none is built yet
C38_Witness ==
    /\ builder.pc = "sleep"
    /\ builder.notify
    /\ DOMAIN epoch_store.pending_checkpoints = 1..Len(PendingCheckpoints(0))
    /\ ~BuiltHeight(1)

\* The second pending checkpoint was announced while the Builder was in
\* make_checkpoint for the first, which is all it had read
C38_WitnessInMake ==
    /\ builder.pc = "for"
    /\ builder.pending = <<1>>
    /\ builder.notify
    /\ 2 \in DOMAIN epoch_store.pending_checkpoints

\* The second pending checkpoint was announced after the Builder had drained what
\* it had read and before it waited
C38_WitnessBeforeWait ==
    /\ builder.pc = "for"
    /\ builder.pending = <<>>
    /\ builder.notify
    /\ 2 \in DOMAIN epoch_store.pending_checkpoints
    /\ BuiltHeight(1)
    /\ ~BuiltHeight(2)


----------------------------------------------------------------------------
\* The watermarks under the two inserts (claim C39), under SpecStore

\* A step of insert_certified_checkpoint
InsertCertifiedStep == \E c \in StoreCheckpoints \cup StoreForks : InsertCertifiedCheckpoint(c)

\* insert_certified_checkpoint leaves the four watermarks as they are, and a
\* checkpoint above HighestVerified that it inserts is above HighestVerified
\* afterwards: insert_verified_checkpoint of state sync then moves the watermark to it
InsertCertifiedKeepsWatermarks ==
    [][ \A c \in StoreCheckpoints \cup StoreForks :
          InsertCertifiedCheckpoint(c) =>
              /\ \A w \in CheckpointWatermark : store'.watermarks[w] = store.watermarks[w]
              /\ (/\ panicked' = "no"
                  /\ \/ Watermark(store, "HighestVerified") = None
                     \/ WatermarkSeq(store, "HighestVerified") < c.data.sequence_number)
                 => /\ SomeGreater(c.data.sequence_number,
                                   get_highest_verified_checkpoint(store'))
                    /\ insert_verified_checkpoint(store', c).store.watermarks["HighestVerified"]
                           = Some(<<c.data.sequence_number, Digest(c.data)>>) ]_vars

\* C39 (as stated): insert_certified_checkpoint leaves all four watermarks
\* unchanged, so that state sync still sees a checkpoint the Aggregator certified
\* as new, and only insert_verified_checkpoint may move HighestVerified
C39_OnlyInsertVerifiedMoves ==
    /\ InsertCertifiedKeepsWatermarks
    /\ [][ store'.watermarks["HighestVerified"] # store.watermarks["HighestVerified"]
           => \E c \in StoreCheckpoints \cup StoreForks : InsertVerifiedCheckpoint(c) ]_vars

\* C39 (amended): insert_certified_checkpoint leaves all four watermarks
\* unchanged, so that state sync still sees a checkpoint the Aggregator certified
\* as new; HighestVerified is moved by insert_verified_checkpoint, by
\* insert_genesis_checkpoint, which calls it, and by update_highest_verified_checkpoint,
\* which it calls, and by no other operation of the store
C39_InsertCertifiedKeepsWatermarks ==
    /\ InsertCertifiedKeepsWatermarks
    /\ [][ store'.watermarks["HighestVerified"] # store.watermarks["HighestVerified"]
           => \/ \E c \in StoreCheckpoints \cup StoreForks : InsertVerifiedCheckpoint(c)
              \/ \E c \in StoreCheckpoints :
                    \/ UpdateHighestVerifiedCheckpoint(c)
                    \/ InsertGenesisCheckpoint(c, ContentsOf(c)) ]_vars

\* insert_certified_checkpoint stored checkpoint 1 above a HighestVerified of 0
C39_Witness ==
    /\ store.watermarks["HighestVerified"] = Some(<<0, Digest(StoreChain(0))>>)
    /\ IsSome(Get(store.certified_checkpoints, 1))
    /\ panicked = "no"


----------------------------------------------------------------------------
\* The two indexes of the certified checkpoints (claim C40): any sequence of
\* insert_certified_checkpoint and insert_verified_checkpoint, of the chained
\* checkpoints, of the same summaries under a second certificate, and of a second
\* summary at sequence number 1

\* The chained checkpoints, each certified by another quorum
StoreRecertified == {VerifiedCheckpoint(StoreChain(n), "other quorum") : n \in 0..MaxStoreSeq}

IndexesNext ==
    \E c \in StoreCheckpoints \cup StoreRecertified \cup StoreForks :
        \/ InsertCertifiedCheckpoint(c)
        \/ InsertVerifiedCheckpoint(c)

SpecIndexes == StoreInit /\ [][IndexesNext]_vars

\* Every checkpoint in certified_checkpoints is stored in checkpoint_by_digest
\* under its digest
BySequenceIsByDigest ==
    \A n \in DOMAIN store.certified_checkpoints :
        Get(store.checkpoint_by_digest, Digest(store.certified_checkpoints[n].data))
            = Some(store.certified_checkpoints[n])

\* C40 (as stated): the two certified indexes agree in every reachable state: every
\* checkpoint in checkpoint_by_digest is the checkpoint stored in
\* certified_checkpoints at its sequence number, and every checkpoint in
\* certified_checkpoints is stored in checkpoint_by_digest under its digest
C40_IndexesAgree ==
    /\ BySequenceIsByDigest
    /\ \A d \in DOMAIN store.checkpoint_by_digest :
           Get(store.certified_checkpoints, store.checkpoint_by_digest[d].data.sequence_number)
               = Some(store.checkpoint_by_digest[d])

\* C40 (amended): every checkpoint in certified_checkpoints is stored in
\* checkpoint_by_digest under its digest, and every checkpoint in
\* checkpoint_by_digest is the checkpoint stored in certified_checkpoints at its
\* sequence number unless a checkpoint with another digest was inserted at that
\* sequence number after it, which replaced it there and left it in
\* checkpoint_by_digest
C40_IndexesAgreeUpToReplaced ==
    /\ BySequenceIsByDigest
    /\ \A d \in DOMAIN store.checkpoint_by_digest :
           LET checkpoint == store.checkpoint_by_digest[d]
               at_sequence == Get(store.certified_checkpoints, checkpoint.data.sequence_number)
           IN  /\ Digest(checkpoint.data) = d
               /\ IsSome(at_sequence)
               /\ \/ Unwrap(at_sequence) = checkpoint
                  \/ Digest(Unwrap(at_sequence).data) # d

\* Checkpoint 1 was inserted under two certificates, and a second summary at its
\* sequence number before
C40_Witness ==
    /\ Get(store.certified_checkpoints, 1) = Some(VerifiedCheckpoint(StoreChain(1), "other quorum"))
    /\ Get(store.checkpoint_by_digest, Digest(StoreChain(1)))
           = Some(VerifiedCheckpoint(StoreChain(1), "other quorum"))
    /\ IsSome(Get(store.checkpoint_by_digest, Digest(StoreFork)))

====
